---- MODULE Spec2Model ----
(***************************************************************************)
(* A model of the repository side of rdiff-backup's backup and restore    *)
(* engine (rdiffbackup/locations/_repo_shadow.py): the cache of collated  *)
(* (source, dest) pairs with its post-processing (_CacheCollatedPost-     *)
(* Process), the signature stage (get_sigs), the patch-and-increment tree *)
(* reducer branches, the current-mirror markers around a session, and the *)
(* choice of relevant increments on restore (RestoreFile).                *)
(***************************************************************************)
EXTENDS Integers, Sequences, FiniteSets, TLC

\* ------------------------------------------------------------------ bounds

\* path components are 1..MaxName, indices have at most MaxDepth components
MaxName == 2
MaxDepth == 2
\* number of (source, dest) pairs the collated iterator delivers at most
MaxRows == 3
\* the cache_size the CCPP is constructed with
SmallCache == 2

\* ---------------------------------------------------------------- records

\* Globals.process_uid: the model runs the repository side as a normal user
process_uid == 1000

\* A path record (RORPath) reduced to type, permissions and content.  A
\* record of type "none" stands for Python's None as well as for a record
\* without lstat().
NoRec == [t |-> "none", p |-> 0, d |-> 0]
Reg(d) == [t |-> "reg", p |-> 420, d |-> d]
Dir(p) == [t |-> "dir", p |-> p, d |-> 0]
\* a symbolic link, for the files that are neither regular nor directories
Sym == [t |-> "sym", p |-> 511, d |-> 0]

Present(r) == r.t # "none"
IsDir(r) == r.t = "dir"
IsReg(r) == r.t = "reg"

\* 0o300: a directory its owner cannot read; 0o755: a readable one
PermLow == 192
PermHigh == 493

SrcRecs == {NoRec, Reg(1), Reg(2), Dir(PermLow), Dir(PermHigh)}
DestRecs == {NoRec, Reg(1), Sym, Dir(PermLow), Dir(PermHigh)}

\* ---------------------------------------------------------------- indices

Names == 1..MaxName
Indices == UNION {[1..n -> Names] : n \in 0..MaxDepth}

Min(a, b) == IF a < b THEN a ELSE b

\* index[:n] of Python
Prefix(i, n) == SubSeq(i, 1, Min(n, Len(i)))

\* index[:-1] of Python
Parent(i) == IF Len(i) = 0 THEN i ELSE SubSeq(i, 1, Len(i) - 1)

\* p is index or one of its ancestors
IsPrefix(p, i) == Len(p) <= Len(i) /\ Prefix(i, Len(p)) = p

\* the order of Python tuples
IdxLess(a, b) ==
    \E k \in 0..Min(Len(a), Len(b)) :
        /\ \A j \in 1..k : a[j] = b[j]
        /\ \/ k = Len(a) /\ k < Len(b)
           \/ k < Len(a) /\ k < Len(b) /\ a[k + 1] < b[k + 1]

\* 0o700 | perms, for permissions given as a number below 0o10000
Or700(p) == p + (448 - ((p \div 64) % 8) * 64)

\* ------------------------------------------------------------------ state

VARIABLES
    pc,             \* position of the session: "init", "run", "closed",
                    \* "done" or "crashed"
    markers,        \* the times of the current_mirror.<time>.data files
    stream,         \* the pairs the collated iterator has delivered so far
    sigdone,        \* get_sigs has met the end of the collated iterator
    cache_size,     \* CCPP.cache_size, set by the constructor
    cache_dict,     \* CCPP.cache_dict: index -> row
    cache_indices,  \* CCPP.cache_indices
    dir_perms_list, \* CCPP.dir_perms_list: (index of dest_rp, perms)
    parent_list,    \* CCPP.parent_list: (index, source_rorp, dest_rorp)
    meta,           \* the records written with metawriter.write_object
    metastate,      \* "open", "closed" (metawriter.close) or "converted"
    evlog,          \* history: the rows _post_process has been called with
    chmods,         \* history: the chmod calls of the CCPP
    failure,        \* the assertion or exception that ended the session
    fs,             \* the mirror tree: index -> record of the file there
    diffq,          \* indices whose signature was yielded and whose diff
                    \* has not been patched yet
    fill,           \* FillInIter: started, old_index
    branches,       \* IterTreeReducer.branches, each with its base_index,
                    \* dir_update and dir_replacement
    incs,           \* the increment files written in this session
    ops,            \* history: what the last fast_process_file did, in order
    \* one path of the repository over several sessions
    mirror_time,    \* the time of the last session, 0 before the first
    mirror_state,   \* the state of the path in the mirror
    inc_list,       \* the increments of the path, as a listing gives them
    tree,           \* history: the state of the path in each session
    rest,           \* the last restore: its time and the record it gave
    \* the calls of touch_current_mirror and remove_current_mirror
    mlog,           \* history: the touch and remove calls, with the markers
                    \* before and after
    \* the start of a restore
    inc_times,      \* the times of the increments.<time>.dir files
    meta_times,     \* the times of the mirror_metadata.<time> files
    rinit,          \* what initialize_restore did: the listing of the
                    \* markers it got, _mirror_time and _restore_time
    \* one RestoreFile and the read of its content
    rf,             \* the restore time, relevant_incs, and whether
                    \* get_restore_fp was called
    \* the loop of get_sigs and what it yields
    pipeline_max_length,
                    \* Globals.pipeline_max_length
    remote,         \* Globals.backup_reader is not Globals.backup_writer
    num_rorps_seen, \* the counter of get_sigs
    sigout,         \* history: the pairs pulled from the CCPP ("pair") and,
                    \* after each, what get_sigs yields ("flush", "sig")
    \* main_run
    run_at,         \* the stage main_run executes next, or "returned"
    ret_val,        \* ret_val of main_run
    stages,         \* history: the stages executed, each with its return code
    returned,       \* the value main_run returned
    \* one call of fast_process_file
    fast,           \* its inputs, and after the call what it did
    \* one call of _get_one_sig
    onesig,         \* its arguments and the state of the mirror file, and
                    \* after the call what it returned
    \* _CachedRF: the cache of RestoreFiles of a restore
    rf_repo,        \* indices that exist in the mirror or the increments
    rf_list,        \* _CachedRF.rf_list, as the indices of its RestoreFiles
    rf_requests,    \* history of the get_fp calls
    \* _PermissionChanger: the modes it relaxes in the mirror
    perm_fs,        \* type and mode of the mirror paths
    perm_index,     \* _PermissionChanger.current_index
    open_index_list,\* _PermissionChanger.open_index_list, top first
    perm_hist,      \* history: the modes before the restore and the last call
    \* the calls the tree reducer has made to its branches
    itrlog          \* history of start_process_directory, fast_process_file and end_process_directory

sessionVars == <<pc, markers, stream, sigdone, cache_size, cache_dict, cache_indices,
                 dir_perms_list, parent_list, meta, metastate, evlog, chmods,
                 failure, fs, diffq, fill, branches, incs, ops>>

chainVars == <<mirror_time, mirror_state, inc_list, tree, rest>>

markerVars == <<mlog>>

restoreVars == <<inc_times, meta_times, rinit>>

rfVars == <<rf>>

sigVars == <<pipeline_max_length, remote, num_rorps_seen, sigout>>

runVars == <<run_at, ret_val, stages, returned>>

fastVars == <<fast>>

onesigVars == <<onesig>>

cachedrfVars == <<rf_repo, rf_list, rf_requests>>

permVars == <<perm_fs, perm_index, open_index_list, perm_hist>>

itrVars == <<itrlog>>

auxVars == <<markerVars, restoreVars, rfVars, sigVars, runVars, fastVars, onesigVars, cachedrfVars, permVars, itrVars>>

vars == <<sessionVars, chainVars, auxVars>>

\* The state of the CCPP object, of the tree reducer and of what they act
\* on, as one value that the operators below take and return.
Cur == [cache_size |-> cache_size, cache_dict |-> cache_dict, cache_indices |-> cache_indices,
        dir_perms_list |-> dir_perms_list, parent_list |-> parent_list,
        meta |-> meta, metastate |-> metastate, evlog |-> evlog,
        chmods |-> chmods, failure |-> failure, fs |-> fs,
        branches |-> branches, incs |-> incs, ops |-> ops]

in_cache(S, index) == index \in DOMAIN S.cache_dict

\* rp.chmod(perms) on the mirror path with the given index
Chmod(S, index, perms, by) ==
    [S EXCEPT !.fs[index].p = perms,
              !.chmods = Append(@, [index |-> index, perms |-> perms, by |-> by,
                                    at |-> Len(S.evlog)])]

\* a variant of _unreadable_dir_init that keeps the old mode of the directory
unreadable_dir_init_old_perms(S, index, source_rorp, dest_rorp) ==
    LET S1 == Chmod(S, index, Or700(dest_rorp.p), "init")
    IN  IF Present(source_rorp) /\ IsDir(source_rorp)
        THEN [S1 EXCEPT !.dir_perms_list =
                  Append(@, [index |-> index, perms |-> dest_rorp.p])]
        ELSE S1

\* _unreadable_dir_init
\* _unreadable_dir_init, were an entry appended whatever the source record
unreadable_dir_init_any_source(S, index, source_rorp, dest_rorp) ==
    LET S1 == Chmod(S, index, Or700(dest_rorp.p), "init")
    IN  [S1 EXCEPT !.dir_perms_list =
            Append(@, [index |-> index, perms |-> source_rorp.p])]

unreadable_dir_init(S, index, source_rorp, dest_rorp) ==
    LET S1 == Chmod(S, index, Or700(dest_rorp.p), "init")
    IN  IF Present(source_rorp) /\ IsDir(source_rorp)
        THEN [S1 EXCEPT !.dir_perms_list =
                  Append(@, [index |-> index, perms |-> source_rorp.p])]
        ELSE S1

\* the condition under which _pre_process calls _unreadable_dir_init
\* the test of _pre_process, were it a test of the owner-read bit
needs_elevation_read_bit(dest_rorp) ==
    /\ Present(dest_rorp) /\ IsDir(dest_rorp)
    /\ process_uid # 0
    /\ (dest_rorp.p \div 256) % 2 = 0

needs_elevation(dest_rorp) ==
    /\ Present(dest_rorp) /\ IsDir(dest_rorp)
    /\ process_uid # 0
    /\ dest_rorp.p % 512 < 448

\* _pre_process (without hard links)
pre_process(S, index, source_rorp, dest_rorp) ==
    IF needs_elevation(dest_rorp)
    THEN unreadable_dir_init(S, index, source_rorp, dest_rorp)
    ELSE S

\* variants of metadata_rorp that the properties below must tell apart
metadata_rorp_deleted_keeps_dest(source_rorp, dest_rorp, success) ==
    IF success = 1 THEN source_rorp ELSE dest_rorp

metadata_rorp_always_dest(source_rorp, dest_rorp, success) ==
    IF success = 2 THEN NoRec ELSE dest_rorp

\* the record _post_process hands to the metadata writer
metadata_rorp(source_rorp, dest_rorp, success) ==
    IF success = 0 THEN dest_rorp
    ELSE IF success = 1 THEN source_rorp
    ELSE NoRec

\* _post_process: write the metadata (statistics are left out)
post_process(S, index, row) ==
    LET md == metadata_rorp(row.src, row.dest, row.success)
        wrote == IF Present(md) THEN md ELSE NoRec
    IN  [S EXCEPT
            !.meta = IF Present(md)
                     THEN Append(@, [index |-> index, rec |-> md,
                                     state |-> S.metastate])
                     ELSE @,
            !.evlog = Append(@, [index |-> index, src |-> row.src,
                                 dest |-> row.dest, changed |-> row.changed,
                                 success |-> row.success, inc |-> row.inc,
                                 wrote |-> wrote])]

\* _reset_dir_perms: only the last entry of dir_perms_list is looked at,
\* and it stays in the list
reset_dir_perms(S, current_index) ==
    LET last == S.dir_perms_list[Len(S.dir_perms_list)]
        dir_index == last.index
    IN  IF /\ IdxLess(dir_index, current_index)
           /\ Prefix(current_index, Len(dir_index)) # dir_index
        THEN Chmod(S, dir_index, last.perms, "reset")
        ELSE S

\* a variant of neither_is_directory that looks at the source record only
source_is_no_directory(src_rorp, dest_rorp) == ~IsDir(src_rorp)

\* the test that opens _update_parent_list
neither_is_directory(src_rorp, dest_rorp) ==
    ~(IsDir(src_rorp) \/ IsDir(dest_rorp))

\* _update_parent_list, were the parent cache never cut back to the
\* ancestors of the new directory
update_parent_list_uncut(S, index, src_rorp, dest_rorp) ==
    IF neither_is_directory(src_rorp, dest_rorp) THEN S
    ELSE [S EXCEPT !.parent_list =
             Append(@, [index |-> index, src |-> src_rorp,
                        dest |-> dest_rorp])]

\* _update_parent_list; a failed assertion is kept in failure
update_parent_list(S, index, src_rorp, dest_rorp) ==
    IF neither_is_directory(src_rorp, dest_rorp) THEN S
    ELSE IF ~(S.parent_list # <<>> \/ index = <<>>)
    THEN [S EXCEPT !.failure = "assert parent_list or index == ()"]
    ELSE
      LET entry == [index |-> index, src |-> src_rorp, dest |-> dest_rorp]
      IN  IF S.parent_list = <<>>
          THEN [S EXCEPT !.parent_list = <<entry>>]
          ELSE
            LET last_parent_index == S.parent_list[Len(S.parent_list)].index
                lp_index == Len(last_parent_index)
                li == Len(index)
            IN  IF ~(li <= lp_index + 1)
                THEN [S EXCEPT !.failure = "assert li <= lp_index + 1"]
                ELSE IF li <= lp_index
                THEN IF Prefix(last_parent_index, li - 1) # Parent(index)
                     THEN [S EXCEPT !.failure = "assert common path"]
                     ELSE [S EXCEPT !.parent_list =
                              Append(SubSeq(@, 1, Min(li, Len(@))), entry)]
                ELSE [S EXCEPT !.parent_list = Append(@, entry)]

\* a variant of first_index that takes the newest row
newest_index(S) == S.cache_indices[Len(S.cache_indices)]

\* the row _shorten_cache removes: the oldest
first_index(S) == S.cache_indices[1]

\* _shorten_cache: remove the first row, possibly adding it to the metadata
shorten_cache(S) ==
    LET first == first_index(S)
        S0 == [S EXCEPT !.cache_indices = Tail(@)]
    IN  IF first \notin DOMAIN S.cache_dict
        THEN S0   \* only a warning is logged
        ELSE
          LET row == S.cache_dict[first]
              S1 == [S0 EXCEPT !.cache_dict =
                        [i \in (DOMAIN @) \ {first} |-> @[i]]]
              S2 == post_process(S1, first, row)
              S3 == IF S2.dir_perms_list # <<>>
                    THEN reset_dir_perms(S2, first) ELSE S2
          IN  update_parent_list(S3, first, row.src, row.dest)

\* __next__, were the cache never shortened
ccpp_next_no_shorten(S, index, source_rorp, dest_rorp) ==
    LET S1 == pre_process(S, index, source_rorp, dest_rorp)
    IN  [S1 EXCEPT
           !.cache_dict =
               [i \in (DOMAIN @) \cup {index} |->
                  IF i = index
                  THEN [src |-> source_rorp, dest |-> dest_rorp,
                        changed |-> 0, success |-> 0, inc |-> "none"]
                  ELSE @[i]],
           !.cache_indices = Append(@, index)]

\* __next__ after the pair has been taken from the collated iterator
ccpp_next(S, index, source_rorp, dest_rorp) ==
    LET S1 == pre_process(S, index, source_rorp, dest_rorp)
        S2 == [S1 EXCEPT
                 !.cache_dict =
                     [i \in (DOMAIN @) \cup {index} |->
                        IF i = index
                        THEN [src |-> source_rorp, dest |-> dest_rorp,
                              changed |-> 0, success |-> 0, inc |-> "none"]
                        ELSE @[i]],
                 !.cache_indices = Append(@, index)]
    IN  IF Len(S2.cache_indices) > S.cache_size THEN shorten_cache(S2) ELSE S2

flag_success(S, index) == [S EXCEPT !.cache_dict[index].success = 1]
flag_deleted(S, index) == [S EXCEPT !.cache_dict[index].success = 2]
\* flag_changed, were it to leave the row alone
flag_changed_not(S, index) == S

flag_changed(S, index) == [S EXCEPT !.cache_dict[index].changed = 1]
set_inc(S, index, inc) == [S EXCEPT !.cache_dict[index].inc = inc]

\* _get_parent_rorps can answer for this index
in_parent_list(S, index) ==
    \E k \in 1..Len(S.parent_list) : S.parent_list[k].index = index

\* get_rorps, get_mirror_rorp: the main cache first, then the parent cache;
\* has_rorps tells whether they return or raise KeyError
\* get_rorps, had it no parent cache to fall back on
has_rorps_main_cache_only(S, index) == in_cache(S, index)

has_rorps(S, index) == in_cache(S, index) \/ in_parent_list(S, index)

get_rorps(S, index) ==
    IF in_cache(S, index)
    THEN [src |-> S.cache_dict[index].src, dest |-> S.cache_dict[index].dest]
    ELSE LET k == CHOOSE k \in 1..Len(S.parent_list) :
                     /\ S.parent_list[k].index = index
                     /\ \A j \in 1..(k - 1) : S.parent_list[j].index # index
         IN  [src |-> S.parent_list[k].src, dest |-> S.parent_list[k].dest]

get_mirror_rorp(S, index) == get_rorps(S, index).dest

RECURSIVE drain_cache(_)
drain_cache(S) ==
    IF S.cache_indices = <<>> THEN S ELSE drain_cache(shorten_cache(S))

RECURSIVE pop_dir_perms(_)
pop_dir_perms(S) ==
    IF S.dir_perms_list = <<>> THEN S
    ELSE LET last == S.dir_perms_list[Len(S.dir_perms_list)]
             S1 == [S EXCEPT !.dir_perms_list = SubSeq(@, 1, Len(@) - 1)]
         IN  pop_dir_perms(Chmod(S1, last.index, last.perms, "close"))

\* a variant of ccpp_close that leaves the rows in the cache
ccpp_close_no_drain(S) ==
    [pop_dir_perms(S) EXCEPT !.metastate = "converted"]

\* metawriter.close()
metawriter_close(S) == [S EXCEPT !.metastate = "closed"]

\* metadata.ManagerObj.ConvertMetaToDiff(), which reads the file the writer
\* has closed
ConvertMetaToDiff(S) ==
    [S EXCEPT !.metastate = IF @ = "closed" THEN "converted"
                            ELSE "converted unclosed"]

\* a variant of ccpp_close that closes the metadata writer first
ccpp_close_writer_first(S) ==
    ConvertMetaToDiff(pop_dir_perms(drain_cache(metawriter_close(S))))

\* close: process the remaining rows, reset the remaining permissions,
\* close the metadata writer and have the metadata converted to a diff
ccpp_close(S) ==
    LET S1 == drain_cache(S)
        S2 == pop_dir_perms(S1)
        S3 == metawriter_close(S2)
    IN  ConvertMetaToDiff(S3)


\* ------------------------------------------------- patch and increment

\* an exception or failed assertion that nothing catches: the first is kept
Fail(S, why) == IF S.failure = "none" THEN [S EXCEPT !.failure = why] ELSE S

\* what os.mkdir gives a new directory
MkdirPerms == PermHigh

\* increment.Increment(new, mirror, incpref): the kind of increment that
\* keeps the old state of the mirror file, "none" if there is nothing to keep
Increment(new, mirror) ==
    IF ~Present(new) /\ ~Present(mirror) THEN "none"
    ELSE IF IsDir(mirror) THEN "dir"
    ELSE IF ~Present(mirror) THEN "missing"
    ELSE IF IsReg(new) /\ IsReg(mirror) THEN "diff"
    ELSE "snapshot"

\* a variant of inc_isreg for which no increment is a regular file
inc_never_reg(inc, mirror) == FALSE

\* inc.isreg(): every increment is a regular file but the snapshot of
\* something that is not one
inc_isreg(inc, mirror) == inc # "snapshot" \/ IsReg(mirror)

\* the outcomes of the steps of a patch that can meet an error
Outcomes == {"ok", "patchfail", "incfail", "renamefail"}

Did(S, index, inc, old, did) ==
    [S EXCEPT !.ops = [index |-> index, inc |-> inc, old |-> old,
                       did |-> did]]

\* a fifo, and RORPath.isspecial
Fifo == [t |-> "fifo", p |-> 420, d |-> 0]
isspecial(rorp) == rorp.t = "fifo"

\* a variant of patch_to_temp without the final check of the temp file
patch_to_temp_unchecked(diff_rorp, outcome) ==
    IF isspecial(diff_rorp)
    THEN [ok |-> TRUE,
          new |-> IF outcome = "patchfail"
                  THEN [t |-> "reg", p |-> diff_rorp.p, d |-> 0]
                  ELSE diff_rorp]
    ELSE IF outcome = "patchfail" THEN [ok |-> FALSE, new |-> NoRec]
    ELSE [ok |-> TRUE, new |-> diff_rorp]

\* _patch_to_temp (without hard links): whether it gives true, and the temp
\* file it leaves.  Writing the file fails with outcome "patchfail", and
\* _matches_cached_rorp finds a regular temp file not to match the cached
\* source record with outcome "verifyfail".  A special file that cannot be
\* written is replaced by an empty file with its attributes (_write_special)
\* and is not compared.
patch_to_temp(diff_rorp, outcome) ==
    IF isspecial(diff_rorp)
    THEN [ok |-> TRUE,
          new |-> IF outcome = "patchfail"
                  THEN [t |-> "reg", p |-> diff_rorp.p, d |-> 0]
                  ELSE diff_rorp]
    ELSE IF outcome = "patchfail" THEN [ok |-> FALSE, new |-> NoRec]
    ELSE IF outcome = "verifyfail" /\ IsReg(diff_rorp)
    THEN [ok |-> FALSE, new |-> diff_rorp]
    ELSE [ok |-> TRUE, new |-> diff_rorp]

\* _RepoPatchITRB.can_fast_process, once get_mirror_rorp has returned
can_fast_process(S, index, diff_rorp) ==
    ~(IsDir(diff_rorp) \/ IsDir(get_mirror_rorp(S, index)))

\* _RepoPatchITRB.fast_process_file
patch_fast_process_file(S, index, diff_rorp, outcome) ==
    IF ~has_rorps(S, index) THEN Fail(S, "KeyError")
    ELSE
      LET mirror_rp == S.fs[index]
          patched == patch_to_temp(diff_rorp, outcome)
          tf == patched.new
      IN  IF IsDir(mirror_rp) THEN Fail(S, "assert not mirror_rp.isdir()")
          ELSE IF ~patched.ok
          THEN Did(S, index, "none", mirror_rp,
                   <<"patch_to_temp_failed", "delete_tf">>)
          ELSE IF Present(tf)
          THEN IF outcome = "renamefail"
               THEN Did(S, index, "none", mirror_rp,
                        <<"patch_to_temp", "rename_failed", "delete_tf">>)
               ELSE IF ~in_cache(S, index) THEN Fail(S, "KeyError")
               ELSE Did([flag_success(S, index) EXCEPT !.fs[index] = tf],
                        index, "none", mirror_rp,
                        <<"patch_to_temp", "rename">>)
          ELSE IF Present(mirror_rp)
          THEN IF ~in_cache(S, index) THEN Fail(S, "KeyError")
               ELSE Did([flag_deleted(S, index) EXCEPT !.fs[index] = NoRec],
                        index, "none", mirror_rp,
                        <<"patch_to_temp", "delete_mirror">>)
          ELSE Did(S, index, "none", mirror_rp, <<"patch_to_temp">>)

\* _RepoIncrementITRB.fast_process_file
fast_process_file(S, index, diff_rorp, outcome) ==
    IF ~has_rorps(S, index) THEN Fail(S, "KeyError")
    ELSE
      LET mirror_rp == S.fs[index]
          patched == patch_to_temp(diff_rorp, outcome)
          tf == patched.new
      IN  IF ~patched.ok
          THEN Did(S, index, "none", mirror_rp,
                   <<"patch_to_temp_failed", "delete_tf">>)
          ELSE IF outcome = "incfail"
          THEN Did(S, index, "none", mirror_rp,
                   <<"patch_to_temp", "increment_failed">>
                   \o (IF Present(tf) THEN <<"delete_tf">> ELSE <<>>))
          ELSE
            LET inc == Increment(tf, mirror_rp)
            IN  IF inc = "none"
                THEN Did(S, index, "none", mirror_rp, <<"patch_to_temp">>)
                ELSE IF ~in_cache(S, index) THEN Fail(S, "KeyError")
                ELSE
                  LET S1 == [set_inc(S, index, inc) EXCEPT
                                !.incs[index] = inc]
                      sync == IF inc_isreg(inc, mirror_rp)
                              THEN <<"fsync_inc_with_dir">> ELSE <<>>
                      done == <<"patch_to_temp", "increment">> \o sync
                  IN  IF Present(tf)
                      THEN IF outcome = "renamefail"
                           THEN Did(S1, index, inc, mirror_rp,
                                    done \o <<"rename_failed", "delete_tf">>)
                           ELSE Did([flag_success(S1, index) EXCEPT
                                        !.fs[index] = tf],
                                    index, inc, mirror_rp,
                                    done \o <<"rename">>)
                      ELSE IF Present(mirror_rp)
                      THEN Did([flag_deleted(S1, index) EXCEPT
                                   !.fs[index] = NoRec],
                               index, inc, mirror_rp,
                               done \o <<"delete_mirror">>)
                      ELSE Did(S1, index, inc, mirror_rp, done)

NewBranch(index) ==
    [base_index |-> index, dir_update |-> NoRec, has_repl |-> FALSE,
     dir_replacement |-> NoRec]

\* the top branch, which start_process_directory works on
SetTop(S, b) == [S EXCEPT !.branches[Len(S.branches)] = b]
Top(S) == S.branches[Len(S.branches)]

\* _prepare_dir
prepare_dir(S, index, diff_rorp) ==
    LET S1 == SetTop(S, [Top(S) EXCEPT !.dir_update = diff_rorp])
    IN  IF ~IsDir(S1.fs[index])
        THEN IF ~in_cache(S1, index) THEN Fail(S1, "KeyError")
             ELSE flag_success([S1 EXCEPT !.fs[index] = Dir(MkdirPerms)],
                               index)
        ELSE IF in_cache(S1, index) THEN flag_success(S1, index) ELSE S1

\* _RepoIncrementITRB.start_process_directory, on the branch just pushed
start_process_directory(S, index, diff_rorp, outcome) ==
    IF ~has_rorps(S, index) THEN Fail(S, "KeyError")
    ELSE
      LET base_rp == S.fs[index]
      IN  IF ~(IsDir(diff_rorp) \/ IsDir(base_rp))
          THEN Fail(S, "assert diff or base is a directory")
          ELSE IF IsDir(diff_rorp)
          THEN prepare_dir([S EXCEPT !.incs[index] =
                               Increment(diff_rorp, base_rp)],
                           index, diff_rorp)
          ELSE IF outcome = "patchfail"
          \* _set_dir_replacement failed: the old directory is staged
          THEN SetTop(S, [Top(S) EXCEPT
                             !.has_repl = TRUE,
                             !.dir_replacement = get_mirror_rorp(S, index)])
          ELSE
            LET S1 == SetTop(S, [Top(S) EXCEPT !.has_repl = TRUE,
                                               !.dir_replacement = diff_rorp])
                inc == Increment(diff_rorp, base_rp)
            IN  IF ~in_cache(S1, index) THEN Fail(S1, "KeyError")
                ELSE flag_success([set_inc(S1, index, inc) EXCEPT
                                      !.incs[index] = inc], index)

\* something is left in the mirror directory with this index
HasChildren(S, index) ==
    \E j \in Indices : j # index /\ Parent(j) = index /\ Present(S.fs[j])

\* _RepoPatchITRB.end_process_directory for branch b
end_process_directory(S, b) ==
    IF Present(b.dir_update)
    THEN IF ~IsDir(S.fs[b.base_index])
         THEN Fail(S, "assert base_rp.isdir()")
         ELSE [S EXCEPT !.fs[b.base_index].p =
                  IF process_uid # 0 /\ b.dir_update.p % 512 < 448
                  THEN Or700(b.dir_update.p) ELSE b.dir_update.p]
    ELSE IF b.has_repl
    THEN IF HasChildren(S, b.base_index) \/ ~IsDir(S.fs[b.base_index])
         THEN Fail(S, "OSError in rmdir")
         ELSE [S EXCEPT !.fs[b.base_index] = b.dir_replacement]
    ELSE S

\* the branches, were none of them finished before the last diff
finish_branches_late(S, index) == S

\* IterTreeReducer._finish_branches: end the branches index has passed
RECURSIVE finish_branches(_, _)
finish_branches(S, index) ==
    IF S.failure # "none" \/ S.branches = <<>> THEN S
    ELSE IF IsPrefix(Top(S).base_index, index) THEN S
    ELSE finish_branches(
             [end_process_directory(S, Top(S)) EXCEPT
                 !.branches = SubSeq(@, 1, Len(@) - 1)], index)

\* IterTreeReducer.finish_processing
RECURSIVE finish_processing(_)
finish_processing(S) ==
    IF S.failure # "none" \/ S.branches = <<>> THEN S
    ELSE finish_processing(
             [end_process_directory(S, Top(S)) EXCEPT
                 !.branches = SubSeq(@, 1, Len(@) - 1)])

\* IterTreeReducer.__call__(index, diff_rorp)
itr_call(S, index, diff_rorp, outcome) ==
    IF S.failure # "none" THEN S
    ELSE
      LET first == S.branches = <<>>
          S1 == IF first THEN S ELSE finish_branches(S, index)
      IN  IF S1.failure # "none" THEN S1
          ELSE IF ~has_rorps(S1, index) THEN Fail(S1, "KeyError")
          ELSE IF can_fast_process(S1, index, diff_rorp)
          THEN fast_process_file(
                   IF first
                   THEN [S1 EXCEPT !.branches = <<NewBranch(index)>>]
                   ELSE S1, index, diff_rorp, outcome)
          ELSE start_process_directory(
                   [S1 EXCEPT !.branches = Append(@, NewBranch(index))],
                   index, diff_rorp, outcome)

\* rorpiter.FillInIter: the indices it yields before the diff with index
\* cur_index, namely the ancestors the diffs so far have not brought
Fillers(filled, cur_index) ==
    IF ~filled.started
    THEN [k \in 1..Len(cur_index) |-> Prefix(cur_index, k - 1)]
    ELSE IF Parent(cur_index) = Parent(filled.old_index) THEN <<>>
    ELSE LET missing == {i \in 1..(Len(cur_index) - 1) :
                            Prefix(cur_index, i) # Prefix(filled.old_index, i)}
         IN  [k \in 1..Cardinality(missing) |->
                Prefix(cur_index,
                       CHOOSE i \in missing :
                           Cardinality({j \in missing : j < i}) = k - 1)]

\* the filled-in records are read from the mirror when they are yielded
RECURSIVE itr_fillers(_, _)
itr_fillers(S, fillers) ==
    IF fillers = <<>> THEN S
    ELSE itr_fillers(itr_call(S, Head(fillers), S.fs[Head(fillers)], "ok"),
                     Tail(fillers))


\* ------------------------------------------------------- current mirror

\* Time.prevtime and Time.curtime: the times of the previous session and of
\* this one
prev_time == 1
cur_time == 2

\* a variant of touch_current_mirror that writes no marker
touch_nothing(ms, time) == ms

\* touch_current_mirror: write current_mirror.<time>.data and fsync it
touch_current_mirror(ms, time) == ms \cup {time}

\* a variant of remove_current_mirror that deletes the newer marker
remove_newer_mirror(ms) ==
    IF Cardinality(ms) # 2 THEN [ok |-> FALSE, markers |-> ms]
    ELSE LET newer == CHOOSE t \in ms : \A u \in ms : t >= u
         IN  [ok |-> TRUE, markers |-> ms \ {newer}]

\* remove_current_mirror: delete the older of the two markers; ok is false
\* if the assertion on their number fails
remove_current_mirror(ms) ==
    IF Cardinality(ms) # 2 THEN [ok |-> FALSE, markers |-> ms]
    ELSE LET older == CHOOSE t \in ms : \A u \in ms : t <= u
         IN  [ok |-> TRUE, markers |-> ms \ {older}]

\* ---------------------------------------------------------------- actions

Commit(S) ==
    /\ cache_dict' = S.cache_dict
    /\ cache_indices' = S.cache_indices
    /\ dir_perms_list' = S.dir_perms_list
    /\ parent_list' = S.parent_list
    /\ meta' = S.meta
    /\ metastate' = S.metastate
    /\ evlog' = S.evlog
    /\ chmods' = S.chmods
    /\ failure' = S.failure
    /\ fs' = S.fs
    /\ branches' = S.branches
    /\ incs' = S.incs
    /\ ops' = S.ops

curVars == <<cache_dict, cache_indices, dir_perms_list, parent_list, meta,
             metastate, evlog, chmods, failure, fs, branches, incs, ops>>

\* no session is running
IdleCCPP ==
    /\ pc = "init"
    /\ stream = <<>>
    /\ sigdone = FALSE
    /\ cache_dict = <<>>
    /\ cache_indices = <<>>
    /\ dir_perms_list = <<>>
    /\ parent_list = <<>>
    /\ meta = <<>>
    /\ metastate = "open"
    /\ evlog = <<>>
    /\ chmods = <<>>
    /\ failure = "none"
    /\ fs = [i \in Indices |-> NoRec]
    /\ diffq = <<>>
    /\ fill = [started |-> FALSE, old_index |-> <<>>]
    /\ branches = <<>>
    /\ incs = [i \in Indices |-> "none"]
    /\ ops = [index |-> <<>>, inc |-> "none", old |-> NoRec, did |-> <<>>]

IdleSession == cache_size \in 1..SmallCache /\ IdleCCPP

SessionInit == markers = {prev_time} /\ IdleSession

\* no session has been run on the path yet
NoChain ==
    /\ mirror_time = 0
    /\ mirror_state = NoRec
    /\ inc_list = <<>>
    /\ tree = <<>>
    /\ rest = [time |-> 0, rorp |-> NoRec]

\* nothing else has happened
\* initialize_restore has not been called
NoRestoreInit ==
    [status |-> "none", requested |-> 0, listing |-> <<>>, warned |-> FALSE,
     mirror_time |-> 0, inctimes |-> <<>>, restore_time |-> 0]

\* no RestoreFile has been made
NoRestoreFile ==
    [made |-> FALSE, restore_time |-> 0, relevant_incs |-> <<>>,
     attribs |-> NoRec, read |-> FALSE, first_is_snapshot |-> FALSE]

\* fast_process_file has not been called
NoFastPath ==
    [called |-> FALSE, increments |-> FALSE, mirror |-> NoRec,
     diff |-> NoRec, outcome |-> "ok", after |-> NoRec, success |-> 0,
     wrote |-> NoRec, did |-> <<>>, failure |-> "none"]

\* _get_one_sig has not been called
NoOneSig ==
    [called |-> FALSE, preserve_hardlinks |-> FALSE, src |-> NoRec,
     is_linked |-> FALSE, dest |-> NoRec, uid |-> 0, isreg |-> FALSE,
     readable |-> FALSE, isowner |-> FALSE, open1 |-> "ok",
     chmod2 |-> "ok", open2 |-> "ok",
     ret |-> "None", sig |-> NoRec, file |-> FALSE, linked |-> <<>>,
     opens |-> 0, chmods |-> <<>>, errorlog |-> <<>>]

\* nothing has been called, except in the one group of variables named
NoAuxBut(group) ==
    /\ IF group = "markerVars" THEN TRUE
       ELSE mlog = <<>>
    /\ IF group = "restoreVars" THEN TRUE
       ELSE inc_times = {} /\ meta_times = {} /\ rinit = NoRestoreInit
    /\ IF group = "rfVars" THEN TRUE
       ELSE rf = NoRestoreFile
    /\ IF group = "sigVars" THEN TRUE
       ELSE /\ pipeline_max_length = 2 /\ remote = FALSE
            /\ num_rorps_seen = 0 /\ sigout = <<>>
    /\ IF group = "runVars" THEN TRUE
       ELSE /\ run_at = "verbosity" /\ ret_val = 0
            /\ stages = <<>> /\ returned = 0
    /\ IF group = "fastVars" THEN TRUE
       ELSE fast = NoFastPath
    /\ IF group = "onesigVars" THEN TRUE
       ELSE onesig = NoOneSig
    /\ IF group = "cachedrfVars" THEN TRUE
       ELSE /\ rf_repo = {}
            /\ rf_list = <<>>
            /\ rf_requests = <<>>
    /\ IF group = "permVars" THEN TRUE
       ELSE /\ perm_fs = <<>>
            /\ perm_index = <<>>
            /\ open_index_list = <<>>
            /\ perm_hist = <<>>
    /\ IF group = "itrVars" THEN TRUE
       ELSE itrlog = <<>>

NoAux == NoAuxBut("none")

Init == SessionInit /\ NoChain /\ NoAux

\* the row of the stream with this index
StreamRow(index) ==
    stream[CHOOSE k \in 1..Len(stream) : stream[k].index = index]

InStream(index) == \E k \in 1..Len(stream) : stream[k].index = index

\* The collated iterator delivers the pairs of two trees in index order:
\* the root first, a directory on both sides, and below it an entry on
\* either side only under a directory of that side.
ValidPair(index, src, dest) ==
    /\ Present(src) \/ Present(dest)
    /\ IF stream = <<>>
       THEN index = <<>> /\ IsDir(src) /\ IsDir(dest)
       ELSE /\ IdxLess(stream[Len(stream)].index, index)
            /\ InStream(Parent(index))
            /\ Present(src) => IsDir(StreamRow(Parent(index)).src)
            /\ Present(dest) => IsDir(StreamRow(Parent(index)).dest)

\* the session starts: the new marker is written before anything else
TouchCurrentMirror ==
    /\ pc = "init"
    /\ markers' = touch_current_mirror(markers, cur_time)
    /\ pc' = "run"
    /\ UNCHANGED <<stream, sigdone, cache_size, diffq, fill>>
    /\ UNCHANGED curVars
    /\ UNCHANGED chainVars
    /\ UNCHANGED auxVars

\* The number of pairs pulled from the CCPP after the pair of index.  The
\* signatures travel to the patch side through a pipeline much shorter than
\* the cache (set_rorp_cache: cache_size = pipeline_max_length * 4), so the
\* signature side is never cache_size pairs ahead of the diff being patched.
PulledAfter(index) ==
    Cardinality({k \in 1..Len(stream) : IdxLess(index, stream[k].index)})

\* One turn of the loop of get_sigs: the CCPP takes the next pair from the
\* collated iterator, and a signature is yielded if the pair differs.  The
\* mirror file of a pair may have gone since the dest record was made
\* (_get_one_sig_fp then finds no regular file and gives no signature).
GetSigs ==
    /\ pc = "run" /\ ~sigdone /\ Len(stream) < MaxRows
    /\ diffq # <<>> => PulledAfter(Head(diffq)) + 1 < cache_size
    /\ \E index \in Indices, src \in SrcRecs, dest \in DestRecs,
          gone \in BOOLEAN :
        /\ ValidPair(index, src, dest)
        /\ gone => IsReg(dest) /\ ~IsDir(src) /\ src # dest
        /\ LET S0 == [Cur EXCEPT !.fs[index] = IF gone THEN NoRec ELSE dest]
               S1 == ccpp_next(S0, index, src, dest)
               sig == ~(Present(src) /\ Present(dest) /\ src = dest) /\ ~gone
               S2 == IF sig THEN flag_changed(S1, index) ELSE S1
           IN  /\ Commit(S2)
               /\ stream' = Append(stream, [index |-> index, src |-> src,
                                            dest |-> dest])
               /\ diffq' = IF sig THEN Append(diffq, index) ELSE diffq
               /\ pc' = IF S2.failure # "none" THEN "crashed" ELSE pc
    /\ UNCHANGED <<markers, sigdone, cache_size, fill>>
    /\ UNCHANGED chainVars
    /\ UNCHANGED auxVars

\* get_sigs meets the end of the collated iterator
GetSigsEnd ==
    /\ pc = "run" /\ ~sigdone /\ stream # <<>>
    /\ sigdone' = TRUE
    /\ UNCHANGED <<pc, markers, stream, cache_size, diffq, fill>>
    /\ UNCHANGED curVars
    /\ UNCHANGED chainVars
    /\ UNCHANGED auxVars

\* One turn of the loop of patch_and_increment: the next diff arrives,
\* FillInIter puts the missing ancestors before it, and the tree reducer is
\* called with each of them.  The diff of an index carries the source record.
PatchStep ==
    /\ pc = "run" /\ diffq # <<>>
    /\ \E outcome \in Outcomes :
        LET index == Head(diffq)
            S1 == itr_fillers(Cur, Fillers(fill, index))
            S2 == itr_call(S1, index, StreamRow(index).src, outcome)
        IN  /\ Commit(S2)
            /\ pc' = IF S2.failure # "none" THEN "crashed" ELSE pc
    /\ diffq' = Tail(diffq)
    /\ fill' = [started |-> TRUE, old_index |-> Head(diffq)]
    /\ UNCHANGED <<markers, stream, sigdone, cache_size>>
    /\ UNCHANGED chainVars

Patch == PatchStep /\ UNCHANGED auxVars

\* the diffs are exhausted: ITR.finish_processing() and CCPP.close()
PatchFinishStep ==
    /\ pc = "run" /\ sigdone /\ diffq = <<>>
    /\ LET S1 == finish_processing(Cur)
           S2 == IF S1.failure # "none" THEN S1 ELSE ccpp_close(S1)
       IN  /\ Commit(S2)
           /\ pc' = IF S2.failure # "none" THEN "crashed" ELSE "closed"
    /\ UNCHANGED <<markers, stream, sigdone, cache_size, diffq, fill>>
    /\ UNCHANGED chainVars

PatchFinish == PatchFinishStep /\ UNCHANGED auxVars

\* the session ends: the older marker is removed after everything else
RemoveCurrentMirror ==
    /\ pc = "closed"
    /\ LET r == remove_current_mirror(markers)
       IN  /\ markers' = r.markers
           /\ pc' = IF r.ok THEN "done" ELSE "crashed"
    /\ UNCHANGED <<stream, sigdone, cache_size, diffq, fill>>
    /\ UNCHANGED curVars
    /\ UNCHANGED chainVars
    /\ UNCHANGED auxVars

Next ==
    \/ TouchCurrentMirror
    \/ GetSigs
    \/ GetSigsEnd
    \/ Patch
    \/ PatchFinish
    \/ RemoveCurrentMirror

Spec == Init /\ [][Next]_vars

\* ----------------------------------------- one path over several sessions

\* the sessions run on the path
MaxSessions == 4

\* the index of the path, and the states it can be in: absent, a regular
\* file with some content and permissions, or a directory
ChainIndex == <<1>>
ChainStates ==
    {NoRec, Reg(1), Reg(2), [Reg(1) EXCEPT !.p = 384], Dir(PermHigh),
     Dir(488)}

\* what a file that could not be put together holds
Garbage == 99

\* An increment file: its time, its type, the record of the old mirror file
\* it was made from, and for a diff the delta, which gives the old content
\* when it is applied to the content it was computed against.
IncFile(time, kind, new, mirror) ==
    [time |-> time, kind |-> kind,
     rorp |-> IF kind = "missing" THEN NoRec
              ELSE IF kind = "diff" THEN [mirror EXCEPT !.d = 0]
              ELSE mirror,
     basis |-> IF kind = "diff" THEN new.d ELSE 0,
     result |-> IF kind = "diff" THEN mirror.d ELSE 0]

\* the directory the path is in, which no session changes
ChainRoot == Dir(PermHigh)

\* get_sigs in a session where the path is the only thing that changed: the
\* CCPP has taken the pairs of the root and of the path
OnePair(new, mirror) ==
    LET S0 == [Cur EXCEPT !.fs[<<>>] = ChainRoot, !.fs[ChainIndex] = mirror]
        S1 == ccpp_next(S0, <<>>, ChainRoot, ChainRoot)
    IN  flag_changed(ccpp_next(S1, ChainIndex, new, mirror), ChainIndex)

\* patch_and_increment with the diff of the path as the only diff
patch_and_increment(new, mirror) ==
    LET S1 == itr_fillers(OnePair(new, mirror), Fillers(fill, ChainIndex))
        S2 == finish_processing(itr_call(S1, ChainIndex, new, "ok"))
    IN  IF S2.failure # "none" THEN S2 ELSE ccpp_close(S2)

\* a variant of get_newer_incs that leaves out the increment of rest_time
get_newer_incs_strict(incs_of_file, restore_time) ==
    LET newer == {k \in 1..Len(incs_of_file) :
                     incs_of_file[k].time > restore_time}
    IN  [n \in 1..Cardinality(newer) |->
           incs_of_file[CHOOSE k \in newer :
               Cardinality({j \in newer :
                   incs_of_file[j].time < incs_of_file[k].time}) = n - 1]]

\* a variant of get_newer_incs that leaves the increments in the order of
\* the listing
get_newer_incs_as_listed(incs_of_file, restore_time) ==
    SelectSeq(incs_of_file, LAMBDA inc : inc.time >= restore_time)

\* RestoreFile.get_newer_incs: the increments not older than restore_time,
\* sorted by time
get_newer_incs(incs_of_file, restore_time) ==
    LET newer == {k \in 1..Len(incs_of_file) :
                     incs_of_file[k].time >= restore_time}
    IN  [n \in 1..Cardinality(newer) |->
           incs_of_file[CHOOSE k \in newer :
               Cardinality({j \in newer :
                   incs_of_file[j].time < incs_of_file[k].time}) = n - 1]]

\* a variant of list.reverse() that leaves the list as it is
not_reversed(seq) == seq

\* list.reverse()
Reverse(seq) == [k \in 1..Len(seq) |-> seq[Len(seq) + 1 - k]]

\* a variant of set_relevant_incs that does not stop at the first increment
\* that is not a diff
set_relevant_incs_uncut(mirror, incs_of_file, restore_time, mirror_t) ==
    LET as_inc == [time |-> mirror_t, kind |-> "snapshot", rorp |-> mirror,
                   basis |-> 0, result |-> 0]
    IN  IF incs_of_file = <<>> \/ restore_time >= mirror_t THEN <<as_inc>>
        ELSE
          LET head == get_newer_incs(incs_of_file, restore_time)
              full == IF head = <<>> \/ head[Len(head)].kind = "diff"
                      THEN Append(head, as_inc) ELSE head
          IN  Reverse(full)

\* RestoreFile.set_relevant_incs: the value it gives relevant_incs
set_relevant_incs(mirror, incs_of_file, restore_time, mirror_t) ==
    LET as_inc == [time |-> mirror_t, kind |-> "snapshot", rorp |-> mirror,
                   basis |-> 0, result |-> 0]
    IN  IF incs_of_file = <<>> \/ restore_time >= mirror_t THEN <<as_inc>>
        ELSE
          LET newer_incs == get_newer_incs(incs_of_file, restore_time)
              stops == {k \in 1..Len(newer_incs) : newer_incs[k].kind # "diff"}
              i == IF stops = {} THEN Len(newer_incs)
                   ELSE (CHOOSE k \in stops : \A j \in stops : k <= j) - 1
              head == SubSeq(newer_incs, 1, Min(i + 1, Len(newer_incs)))
              full == IF head = <<>> \/ head[Len(head)].kind = "diff"
                      THEN Append(head, as_inc) ELSE head
          IN  Reverse(full)

\* RestoreFile.get_attribs: the record of the last of relevant_incs
get_attribs(relevant_incs) ==
    LET last_inc == relevant_incs[Len(relevant_incs)]
    IN  IF last_inc.kind = "missing" THEN NoRec ELSE last_inc.rorp

\* Rdiff.write_patched_fp
write_patched_fp(current, inc_diff) ==
    IF current = inc_diff.basis THEN inc_diff.result ELSE Garbage

RECURSIVE apply_diffs(_, _)
apply_diffs(current, diffs) ==
    IF diffs = <<>> THEN current
    ELSE IF Head(diffs).kind # "diff" THEN Garbage
    ELSE apply_diffs(write_patched_fp(current, Head(diffs)), Tail(diffs))

\* RestoreFile.get_restore_fp, with _get_first_fp: the content it gives
get_restore_fp(relevant_incs) ==
    LET first_inc == relevant_incs[1]
    IN  IF first_inc.kind # "snapshot" \/ ~IsReg(first_inc.rorp) THEN Garbage
        ELSE apply_diffs(first_inc.rorp.d, Tail(relevant_incs))

\* the record and the content a restore at restore_time gives
Restored(mirror, incs_of_file, restore_time, mirror_t) ==
    LET relevant_incs ==
            set_relevant_incs(mirror, incs_of_file, restore_time, mirror_t)
        rorp == get_attribs(relevant_incs)
    IN  IF IsReg(rorp)
        THEN [rorp EXCEPT !.d = get_restore_fp(relevant_incs)]
        ELSE rorp

\* the first session has put the path into the mirror
ChainInit ==
    /\ SessionInit
    /\ mirror_time = 1
    /\ mirror_state \in ChainStates
    /\ tree = <<mirror_state>>
    /\ inc_list = <<>>
    /\ rest = [time |-> 0, rorp |-> NoRec]
    /\ NoAux

\* A session finds the path in state new.  If it differs from the mirror,
\* its diff is patched in, and the increment written gets the time of the
\* session before.  A listing gives the increments in no particular order:
\* the new one is put first.
BackupSession ==
    /\ mirror_time < MaxSessions
    /\ \E new \in ChainStates :
        /\ tree' = Append(tree, new)
        /\ IF new = mirror_state
           THEN UNCHANGED <<mirror_state, inc_list>>
           ELSE LET S == patch_and_increment(new, mirror_state)
                    kind == S.incs[ChainIndex]
                IN  /\ mirror_state' =
                          IF S.failure = "none" THEN S.fs[ChainIndex]
                          ELSE [t |-> S.failure, p |-> 0, d |-> 0]
                    /\ inc_list' =
                          IF kind = "none" THEN inc_list
                          ELSE <<IncFile(mirror_time, kind, new,
                                         mirror_state)>> \o inc_list
    /\ mirror_time' = mirror_time + 1
    /\ UNCHANGED rest
    /\ UNCHANGED sessionVars
    /\ UNCHANGED auxVars

\* the path is restored as it was at the time of one of the sessions
RestoreAt ==
    /\ \E restore_time \in 1..mirror_time :
          rest' = [time |-> restore_time,
                   rorp |-> Restored(mirror_state, inc_list, restore_time,
                                     mirror_time)]
    /\ UNCHANGED <<mirror_time, mirror_state, inc_list, tree>>
    /\ UNCHANGED sessionVars
    /\ UNCHANGED auxVars

ChainNext == BackupSession \/ RestoreAt

SpecChain == ChainInit /\ [][ChainNext]_vars

\* ==================================================================
\* Properties of the chain of increments (specification SpecChain)

Closed == pc \in {"closed", "done"}
EvIndices == [k \in 1..Len(evlog) |-> evlog[k].index]
StreamIndices == [k \in 1..Len(stream) |-> stream[k].index]
MetaIndices == [k \in 1..Len(meta) |-> meta[k].index]
NumMeta(index) == Cardinality({m \in 1..Len(meta) : meta[m].index = index})
Ascending(seq) ==
    \A j, k \in 1..Len(seq) : j < k => IdxLess(seq[j], seq[k])

\* C2 as stated: metadata is written for a row only if its success flag is
\* 1, or it is 0 with the changed flag 0.
C2_OnlySuccessOrUnchanged ==
    \A k \in 1..Len(evlog) :
        Present(evlog[k].wrote) =>
            \/ evlog[k].success = 1
            \/ evlog[k].success = 0 /\ evlog[k].changed = 0

\* C2 amended: the metadata of an index is written at most once and only
\* when its row is evicted; it is written exactly when the success flag is 1
\* and the source record exists, or the success flag is 0 and the dest
\* record exists, whatever the changed flag is.
C2_MetadataAtEviction ==
    /\ \A j, k \in 1..Len(meta) : meta[j].index = meta[k].index => j = k
    /\ \A i \in DOMAIN cache_dict : NumMeta(i) = 0
    /\ \A m \in 1..Len(meta) : \E k \in 1..Len(evlog) :
           evlog[k].index = meta[m].index /\ evlog[k].wrote = meta[m].rec
    /\ \A k \in 1..Len(evlog) :
           /\ NumMeta(evlog[k].index) = IF Present(evlog[k].wrote) THEN 1 ELSE 0
           /\ Present(evlog[k].wrote) <=>
                 \/ evlog[k].success = 1 /\ Present(evlog[k].src)
                 \/ evlog[k].success = 0 /\ Present(evlog[k].dest)

\* a row whose update failed has been evicted and its dest record written
C2_Witness ==
    \E k \in 1..Len(evlog) :
        /\ evlog[k].changed = 1 /\ evlog[k].success = 0
        /\ Present(evlog[k].wrote)

C4_OneRecordPerSourceIndex ==
    Closed =>
        \A k \in 1..Len(stream) :
            NumMeta(stream[k].index) =
                IF Present(stream[k].src) THEN 1 ELSE 0

\* the row of an index finished without error: it needed no update, or it
\* was updated or deleted
RowDone(e) == e.success \in {1, 2} \/ e.src = e.dest

\* C4 amended: after close() every row has been evicted; an index whose row
\* finished without error has exactly one record if it is in the source
\* tree and none if it is not; an index whose update failed or whose mirror
\* file gave no signature has one record if and only if it has a dest
\* record, which is the record written.
C4_RecordsAfterClose ==
    Closed =>
        /\ cache_indices = <<>> /\ EvIndices = StreamIndices
        /\ \A k \in 1..Len(evlog) :
              LET e == evlog[k]
              IN  IF RowDone(e)
                  THEN NumMeta(e.index) = IF Present(e.src) THEN 1 ELSE 0
                  ELSE /\ NumMeta(e.index) = IF Present(e.dest) THEN 1 ELSE 0
                       /\ e.wrote = e.dest

\* the session is closed and a new file whose patch failed has no record
C4_Witness ==
    /\ Closed
    /\ \E k \in 1..Len(evlog) :
          /\ Present(evlog[k].src) /\ ~Present(evlog[k].dest)
          /\ ~RowDone(evlog[k]) /\ NumMeta(evlog[k].index) = 0
    /\ \E k \in 1..Len(evlog) :
          RowDone(evlog[k]) /\ evlog[k].success = 1

\* C5: rows are evicted in the order they were inserted, which is ascending
\* index order, and the metadata writes of a session are strictly ascending
\* in index.
C5_EvictionOrder ==
    /\ EvIndices \o cache_indices = StreamIndices
    /\ Ascending(StreamIndices)
    /\ Ascending(MetaIndices)

\* every row of a full stream has been evicted, some of them by close()
C5_Witness ==
    /\ pc = "closed" /\ Len(evlog) = MaxRows /\ Len(meta) = MaxRows
    /\ cache_size > 1

\* the pair the stream gave for index
PairOf(index) ==
    [src |-> StreamRow(index).src, dest |-> StreamRow(index).dest]

\* index has a row in the stream and one of its records is a directory
IsDirRow(index) ==
    InStream(index) /\ (IsDir(PairOf(index).src) \/ IsDir(PairOf(index).dest))

\* C6: for every row in the main cache, every strict prefix of its index
\* that is a directory on the source or the dest side is retrieved by
\* get_rorps, from the main cache or from the parent cache.
C6_ParentCache ==
    \A i \in DOMAIN cache_dict : \A n \in 0..(Len(i) - 1) :
        LET p == Prefix(i, n)
        IN  IsDirRow(p) => has_rorps(Cur, p) /\ get_rorps(Cur, p) = PairOf(p)

\* a row of depth two is in the main cache and both its ancestors are in
\* the parent cache only, one of them a directory of the dest side only
C6_Witness ==
    \E i \in DOMAIN cache_dict :
        /\ Len(i) = 2
        /\ ~in_cache(Cur, <<>>) /\ in_parent_list(Cur, <<>>)
        /\ ~in_cache(Cur, Parent(i)) /\ in_parent_list(Cur, Parent(i))
        /\ ~IsDir(PairOf(Parent(i)).src)

\* the rows whose dest directory _pre_process made readable
Elevated == {k \in 1..Len(stream) : needs_elevation(stream[k].dest)}

\* close() or _reset_dir_perms has set the mode of index
WasReset(index) ==
    \E c \in 1..Len(chmods) :
        chmods[c].index = index /\ chmods[c].by \in {"reset", "close"}

Beyond(d) ==
    {k \in 1..Len(evlog) :
        IdxLess(d, evlog[k].index) /\ ~IsPrefix(d, evlog[k].index)}

\* C8: every elevation recorded in dir_perms_list is reversed by
\* _reset_dir_perms at the first eviction whose index is greater than the
\* directory and not under it.
C8_ResetWhenLeaving ==
    \A k \in Elevated :
        LET d == stream[k].index
        IN  IsDir(stream[k].src) /\ Beyond(d) # {} =>
                \E c \in 1..Len(chmods) :
                    /\ chmods[c].index = d /\ chmods[c].by = "reset"
                    /\ chmods[c].perms = stream[k].src.p
                    /\ \A j \in Beyond(d) : chmods[c].at <= j

Mutating == {"rename", "delete_mirror"}

\* C9: in the fast path the mirror file is renamed over or deleted only
\* after the increment has been made from the previous state of the mirror
\* file, and fsync'd with its directory if it is a regular file; it is
\* never renamed over or deleted when the increment could not be made.
C9_IncrementFirst ==
    LET did == ops.did
        pair == PairOf(ops.index)
        regular == \/ ops.inc \in {"missing", "diff"}
                   \/ ops.inc = "snapshot" /\ IsReg(ops.old)
    IN  /\ \A k \in 1..Len(did) :
              did[k] \in Mutating =>
                  /\ ops.old = pair.dest
                  /\ ops.inc = Increment(pair.src, ops.old)
                  /\ ops.inc # "none" /\ incs[ops.index] = ops.inc
                  /\ \E j \in 1..(k - 1) :
                        /\ did[j] = "increment"
                        /\ regular => \E f \in (j + 1)..(k - 1) :
                                          did[f] = "fsync_inc_with_dir"
        /\ (\E k \in 1..Len(did) : did[k] = "increment_failed") =>
              \A k \in 1..Len(did) : did[k] \notin Mutating

\* a regular file has been renamed over after its diff increment was synced
C9_Witness ==
    /\ ops.inc = "diff"
    /\ ops.did = <<"patch_to_temp", "increment", "fsync_inc_with_dir",
                   "rename">>

\* C10: every mirror mutation and every metadata write happens while the
\* two markers exist; the new marker is there before the first of them, the
\* old one goes only after close() and the conversion of the metadata, and
\* in every state in between, where the process may be killed, there are
\* exactly two markers.
C10_TwoMarkers ==
    /\ [](/\ pc = "init" =>
                /\ markers = {prev_time}
                /\ meta = <<>> /\ chmods = <<>> /\ ops.did = <<>>
          /\ pc \in {"run", "closed", "crashed"} =>
                markers = {prev_time, cur_time}
          /\ pc = "done" =>
                /\ markers = {cur_time}
                /\ metastate = "converted" /\ cache_indices = <<>>)
    /\ [][(meta' # meta \/ fs' # fs \/ incs' # incs \/ chmods' # chmods) =>
              markers = {prev_time, cur_time} /\ markers' = markers]_vars
    /\ [][markers' # markers /\ cur_time \in markers =>
              metastate = "converted" /\ cache_indices = <<>>]_vars

\* the old marker has been removed after a session that wrote metadata and
\* changed the mirror
C10_Witness ==
    /\ pc = "done" /\ markers = {cur_time}
    /\ meta # <<>> /\ ops.did # <<>>

\* the indices of the chmod calls made by the given part of the CCPP, in
\* the order of the calls
RECURSIVE ChmodsBy(_, _)
ChmodsBy(by, n) ==
    IF n = 0 THEN <<>>
    ELSE IF chmods[n].by = by
    THEN Append(ChmodsBy(by, n - 1), chmods[n].index)
    ELSE ChmodsBy(by, n - 1)

\* the directories recorded in dir_perms_list, in the order of recording
RECURSIVE Recorded(_)
Recorded(seq) ==
    IF seq = <<>> THEN <<>>
    ELSE IF IsDir(StreamRow(Head(seq)).src)
    THEN <<Head(seq)>> \o Recorded(Tail(seq))
    ELSE Recorded(Tail(seq))

\* C19: close() evicts the remaining rows, each with its metadata written
\* to the open writer, then resets the recorded elevations, the last
\* recorded first, then closes the metadata writer, then has the metadata
\* converted; after it the main cache and dir_perms_list are empty and no
\* record was written after the writer was closed.
C19_CloseOrder ==
    Closed =>
        /\ cache_indices = <<>> /\ DOMAIN cache_dict = {}
        /\ dir_perms_list = <<>>
        /\ metastate = "converted"
        /\ \A k \in 1..Len(meta) : meta[k].state = "open"
        /\ \A k \in 1..Len(chmods) :
              chmods[k].by = "close" =>
                  /\ chmods[k].at = Len(evlog)
                  /\ \A j \in 1..Len(chmods) : j > k => chmods[j].by = "close"
        /\ ChmodsBy("close", Len(chmods))
              = Reverse(Recorded(ChmodsBy("init", Len(chmods))))

\* close() has evicted a row whose record was written and has then reset
\* two directories
C19_Witness ==
    /\ Closed
    /\ evlog # <<>> /\ Present(evlog[Len(evlog)].wrote)
    /\ Len(ChmodsBy("close", Len(chmods))) >= 2

\* ==================================================================
\* The current_mirror markers under any touch and remove calls
\* (specification SpecMarkers)

\* the times a marker can have, and the calls looked at
MaxTime == 4
MaxMarkerOps == 3

\* any markers may be there at the start
MarkersInit ==
    /\ markers \in SUBSET (1..MaxTime)
    /\ IdleSession /\ NoChain /\ NoAux

markerOthers ==
    <<pc, stream, sigdone, cache_size, diffq, fill, curVars, chainVars,
                    restoreVars,
                    rfVars,
                    sigVars,
                    runVars,
                    fastVars,
                    onesigVars,
                    cachedrfVars,
                    permVars,
                    itrVars>>

\* touch_current_mirror(data_dir, time)
MarkerTouch ==
    /\ Len(mlog) < MaxMarkerOps
    /\ \E time \in 1..MaxTime :
          LET after == touch_current_mirror(markers, time)
          IN  /\ markers' = after
              /\ mlog' = Append(mlog, [op |-> "touch", time |-> time,
                                       before |-> markers, after |-> after,
                                       ok |-> TRUE])
    /\ UNCHANGED markerOthers

\* remove_current_mirror(data_dir)
MarkerRemove ==
    /\ Len(mlog) < MaxMarkerOps
    /\ LET r == remove_current_mirror(markers)
       IN  /\ markers' = r.markers
           /\ mlog' = Append(mlog, [op |-> "remove", time |-> 0,
                                    before |-> markers, after |-> r.markers,
                                    ok |-> r.ok])
    /\ UNCHANGED markerOthers

MarkersNext == MarkerTouch \/ MarkerRemove

SpecMarkers == MarkersInit /\ [][MarkersNext]_vars

\* C11: remove_current_mirror succeeds with exactly two markers only and
\* then leaves the newer one; a touch of t_new with the single marker t_old
\* < t_new there, followed by a remove, goes from one marker to two and back
\* to the single marker t_new.
C11_RemoveOlder ==
    /\ \A k \in 1..Len(mlog) :
          mlog[k].op = "remove" =>
              /\ mlog[k].ok <=> Cardinality(mlog[k].before) = 2
              /\ ~mlog[k].ok => mlog[k].after = mlog[k].before
              /\ mlog[k].ok =>
                    /\ Cardinality(mlog[k].after) = 1
                    /\ mlog[k].after \subseteq mlog[k].before
                    /\ \A t \in mlog[k].before : \A u \in mlog[k].after :
                          t <= u
    /\ \A k \in 1..(Len(mlog) - 1) :
          /\ mlog[k].op = "touch" /\ mlog[k + 1].op = "remove"
          /\ Cardinality(mlog[k].before) = 1
          /\ \A t \in mlog[k].before : t < mlog[k].time
          => /\ Cardinality(mlog[k].after) = 2
             /\ mlog[k + 1].ok
             /\ mlog[k + 1].after = {mlog[k].time}
             /\ markers = mlog[Len(mlog)].after

\* a session went from t_old to t_new, and the next remove failed its
\* assertion with the one marker left
C11_Witness ==
    /\ Len(mlog) = 3
    /\ mlog[1].op = "touch" /\ Cardinality(mlog[1].before) = 1
    /\ \A t \in mlog[1].before : t < mlog[1].time
    /\ mlog[2].op = "remove" /\ mlog[2].ok
    /\ mlog[3].op = "remove" /\ ~mlog[3].ok

\* ==================================================================
\* The start of a restore: initialize_restore (specification
\* SpecRestoreInit)

\* get_incfiles_list gives the files in the order of the directory listing,
\* which is any order
Listings(S) ==
    {l \in [1..Cardinality(S) -> S] : \A t \in S : \E k \in DOMAIN l : l[k] = t}

max(S) == CHOOSE t \in S : \A u \in S : u <= t
min(S) == CHOOSE t \in S : \A u \in S : t <= u

\* list.sort() of the keys of a dictionary
RECURSIVE Sorted(_)
Sorted(S) == IF S = {} THEN <<>> ELSE <<min(S)>> \o Sorted(S \ {min(S)})

Elems(seq) == {seq[k] : k \in DOMAIN seq}

\* get_mirror_time with nothing cached: FatalError without a marker, a
\* warning with more than one, and the time of the first marker listed
get_mirror_time(cur_mirror_incs) ==
    IF cur_mirror_incs = <<>>
    THEN [fatal |-> TRUE, warned |-> FALSE, time |-> 0]
    ELSE [fatal |-> FALSE, warned |-> Len(cur_mirror_incs) > 1,
          time |-> cur_mirror_incs[1]]

\* get_increment_times(rp=None)
get_increment_times(mirror_t, incs_t, metas_t) ==
    Sorted({mirror_t} \cup incs_t \cup metas_t)

\* a variant of _get_rest_time that takes the next newer time
get_rest_time_newer(inctimes, restore_to_time) ==
    LET newer_times == {t \in Elems(inctimes) : t >= restore_to_time}
    IN  IF newer_times # {} THEN min(newer_times) ELSE max(Elems(inctimes))

\* _get_rest_time(restore_to_time)
get_rest_time(inctimes, restore_to_time) ==
    LET older_times == {t \in Elems(inctimes) : t <= restore_to_time}
    IN  IF older_times # {} THEN max(older_times) ELSE min(Elems(inctimes))

\* a repository with one marker, or with the two of a session that did not
\* finish, or a directory without any
RestoreInitInit ==
    /\ markers \in {ms \in SUBSET (1..MaxTime) : Cardinality(ms) <= 2}
    /\ inc_times \in SUBSET (1..MaxTime)
    /\ meta_times \in SUBSET (1..MaxTime)
    /\ rinit = NoRestoreInit
    /\ IdleSession /\ NoChain /\ NoAuxBut("restoreVars")

restoreOthers ==
    <<sessionVars, chainVars, markerVars,
                    rfVars,
                    sigVars,
                    runVars,
                    fastVars,
                    onesigVars,
                    cachedrfVars,
                    permVars,
                    itrVars>>

\* initialize_restore(data_dir, restore_to_time)
InitializeRestore ==
    /\ rinit.status = "none"
    /\ \E listing \in Listings(markers), restore_to_time \in 0..(MaxTime + 1) :
          LET mt == get_mirror_time(listing)
              inctimes == get_increment_times(mt.time, inc_times, meta_times)
          IN  rinit' =
                  IF mt.fatal
                  THEN [NoRestoreInit EXCEPT !.status = "fatal",
                                             !.requested = restore_to_time]
                  ELSE [status |-> "done", requested |-> restore_to_time,
                        listing |-> listing, warned |-> mt.warned,
                        mirror_time |-> mt.time, inctimes |-> inctimes,
                        restore_time |->
                            get_rest_time(inctimes, restore_to_time)]
    /\ UNCHANGED <<inc_times, meta_times>>
    /\ UNCHANGED restoreOthers

RestoreInitNext == InitializeRestore

SpecRestoreInit == RestoreInitInit /\ [][RestoreInitNext]_vars

\* C12 as stated: with two current_mirror markers there, initialize_restore
\* is refused: no mirror time is selected and no restore time is computed.
C12_TwoMarkersRefused ==
    rinit.status # "none" /\ Cardinality(markers) = 2
    => /\ rinit.status = "fatal"
       /\ rinit.mirror_time = 0
       /\ rinit.restore_time = 0

\* C13: _get_rest_time gives the greatest time of get_increment_times that
\* is not after the requested time, so the older of two consecutive times
\* the requested time lies strictly between, and the oldest time if the
\* requested time is before all of them; the result is one of the times of
\* get_increment_times, which are the marker's time and the times of the
\* increments and of the mirror_metadata files, ascending.
C13_RestTime ==
    rinit.status = "done" =>
        LET times == rinit.inctimes
            t == rinit.requested
            r == rinit.restore_time
        IN  /\ Elems(times) = {rinit.mirror_time} \cup inc_times \cup meta_times
            /\ \A j, k \in DOMAIN times : j < k => times[j] < times[k]
            /\ r \in Elems(times)
            /\ (\E a \in Elems(times) : a <= t) =>
                  /\ r <= t
                  /\ \A a \in Elems(times) : a <= t => a <= r
            /\ (\A a \in Elems(times) : a > t) =>
                  \A a \in Elems(times) : r <= a
            /\ \A k \in 1..(Len(times) - 1) :
                  times[k] < t /\ t < times[k + 1] => r = times[k]

\* the requested time lies strictly between two consecutive times
C13_Witness ==
    /\ rinit.status = "done"
    /\ \E k \in 1..(Len(rinit.inctimes) - 1) :
          /\ rinit.inctimes[k] < rinit.requested
          /\ rinit.requested < rinit.inctimes[k + 1]
          /\ rinit.restore_time = rinit.inctimes[k]

\* ==================================================================
\* One RestoreFile over any list of increments (specification SpecRF)

\* the increments of the file
MaxIncs == 3

IncKinds == {"diff", "snapshot", "dir", "missing"}

\* the increments a file can have: at most one for a time
IncLists ==
    LET AnyIncs == {IncFile(time, kind, Reg(2),
                            IF kind = "dir" THEN Dir(PermHigh) ELSE Reg(1)) :
                        time \in 1..MaxTime, kind \in IncKinds}
    IN  {l \in UNION {[1..n -> AnyIncs] : n \in 0..MaxIncs} :
            \A j, k \in DOMAIN l : j # k => l[j].time # l[k].time}

RFInit ==
    /\ mirror_time \in 1..MaxTime
    /\ mirror_state \in {Reg(2), Dir(PermHigh)}
    /\ inc_list \in IncLists
    /\ tree = <<>>
    /\ rest = [time |-> 0, rorp |-> NoRec]
    /\ SessionInit /\ NoAux

rfOthers ==
    <<sessionVars, chainVars, markerVars, restoreVars,
                    sigVars,
                    runVars,
                    fastVars,
                    onesigVars,
                    cachedrfVars,
                    permVars,
                    itrVars>>

\* RestoreFile(mirror_rp, inc_rp, inc_list) after RestoreFile.initialize(
\* restore_time, mirror_time); its content is read with get_restore_fp if
\* its attributes are those of a regular file
MakeRestoreFile ==
    /\ ~rf.made
    /\ \E restore_time \in 1..MaxTime :
          LET relevant_incs == set_relevant_incs(mirror_state, inc_list,
                                                 restore_time, mirror_time)
              attribs == get_attribs(relevant_incs)
          IN  rf' = [made |-> TRUE, restore_time |-> restore_time,
                     relevant_incs |-> relevant_incs, attribs |-> attribs,
                     read |-> IsReg(attribs),
                     first_is_snapshot |->
                         relevant_incs[1].kind = "snapshot"]
    /\ UNCHANGED rfOthers

RFNext == MakeRestoreFile

SpecRF == RFInit /\ [][RFNext]_vars

\* the mirror file as an element of relevant_incs
MirrorInc ==
    [time |-> mirror_time, kind |-> "snapshot", rorp |-> mirror_state,
     basis |-> 0, result |-> 0]

\* the increments of time t or later, the oldest first
SelectedIncs(t) ==
    LET sel == {inc_list[k] : k \in {j \in DOMAIN inc_list :
                                        inc_list[j].time >= t}}
        times == Sorted({inc.time : inc \in sel})
    IN  [k \in DOMAIN times |-> CHOOSE inc \in sel : inc.time = times[k]]

\* C14: relevant_incs is the mirror alone if the restore time is not before
\* the mirror time or there is no increment; otherwise it is, newest first,
\* the increments of the restore time or later up to the oldest of them
\* that is not a diff, and before them the mirror if they are all diffs or
\* there is none.
C14_RelevantIncs ==
    rf.made =>
        LET t == rf.restore_time
            N == SelectedIncs(t)
            nondiff == {k \in DOMAIN N : N[k].kind # "diff"}
            P == IF nondiff = {} THEN N ELSE SubSeq(N, 1, min(nondiff))
            E == IF \A k \in DOMAIN P : P[k].kind = "diff"
                 THEN P \o <<MirrorInc>> ELSE P
        IN  IF t >= mirror_time \/ inc_list = <<>>
            THEN rf.relevant_incs = <<MirrorInc>>
            ELSE /\ Len(rf.relevant_incs) = Len(E)
                 /\ \A k \in DOMAIN E :
                       rf.relevant_incs[k] = E[Len(E) + 1 - k]

\* a diff and the snapshot increment after it are selected, and one
\* increment of the list is left out
C14_Witness ==
    /\ rf.made
    /\ Len(inc_list) = 3
    /\ Len(rf.relevant_incs) = 2
    /\ rf.relevant_incs[1].kind = "snapshot"
    /\ rf.relevant_incs[1] # MirrorInc
    /\ rf.relevant_incs[2].kind = "diff"

DiffsContinue ==
    \A j \in DOMAIN inc_list :
        inc_list[j].kind = "diff" =>
            \A k \in DOMAIN inc_list :
                /\ inc_list[k].time > inc_list[j].time
                /\ \A l \in DOMAIN inc_list :
                      inc_list[l].time > inc_list[j].time
                      => inc_list[k].time <= inc_list[l].time
                => inc_list[k].kind \in {"diff", "snapshot"}

MaxPipeline == 4
MaxPairs == 6

\* a variant of the test of get_sigs that flushes at the threshold
flush_at_threshold(seen, flush_threshold) == seen >= flush_threshold

\* num_rorps_seen > flush_threshold
flush_due(seen, flush_threshold) == seen > flush_threshold

SigsInit ==
    /\ pipeline_max_length \in 2..MaxPipeline
    /\ remote \in BOOLEAN
    /\ num_rorps_seen = 0
    /\ sigout = <<>>
    /\ SessionInit /\ NoChain /\ NoAuxBut("sigVars")

sigOthers ==
    <<sessionVars, chainVars, markerVars, restoreVars, rfVars,
                    runVars,
                    fastVars,
                    onesigVars,
                    cachedrfVars,
                    permVars,
                    itrVars>>

\* One turn of the loop of get_sigs: the next pair of the CCPP, which is
\* unchanged, or changed with a signature, or changed with no signature
\* (_get_one_sig gave None).
GetSigsPair ==
    /\ Cardinality({k \in DOMAIN sigout : sigout[k] = "pair"}) < MaxPairs
    /\ \E changed \in BOOLEAN, sig \in BOOLEAN :
          LET flush_threshold == pipeline_max_length - 2
              seen == num_rorps_seen + 1
              flush == remote /\ flush_due(seen, flush_threshold)
          IN  /\ num_rorps_seen' = IF ~remote THEN num_rorps_seen
                                   ELSE IF flush THEN 0 ELSE seen
              /\ sigout' = sigout \o <<"pair">>
                             \o (IF flush THEN <<"flush">> ELSE <<>>)
                             \o (IF changed /\ sig THEN <<"sig">> ELSE <<>>)
    /\ UNCHANGED <<pipeline_max_length, remote>>
    /\ UNCHANGED sigOthers

SigsNext == GetSigsPair

SpecSigs == SigsInit /\ [][SigsNext]_vars

FlushAt == {k \in DOMAIN sigout : sigout[k] = "flush"}
PairsIn(a, b) == Cardinality({k \in a..b : sigout[k] = "pair"})
Consecutive(a, b) ==
    /\ a \in FlushAt /\ b \in FlushAt /\ a < b
    /\ \A k \in FlushAt : ~(a < k /\ k < b)

\* C16 as stated: with different connections, exactly pipeline_max_length
\* - 2 pairs are pulled between two consecutive flush tokens.
C16_FlushEveryThreshold ==
    remote =>
        \A a, b \in FlushAt :
            Consecutive(a, b) => PairsIn(a, b) = pipeline_max_length - 2

\* C16: with different connections, a flush token is yielded at every
\* (pipeline_max_length - 1)-th pair, before the signature of that pair:
\* exactly pipeline_max_length - 1 pairs are pulled before the first flush
\* token and between two consecutive ones, fewer after the last one,
\* whichever pairs are changed; no flush token is yielded otherwise.
C16_FlushCadence ==
    /\ ~remote => FlushAt = {}
    /\ remote =>
          /\ \A a, b \in FlushAt :
                Consecutive(a, b) => PairsIn(a, b) = pipeline_max_length - 1
          /\ \A a \in FlushAt :
                /\ sigout[a - 1] = "pair"
                /\ (\A k \in FlushAt : a <= k)
                   => PairsIn(1, a) = pipeline_max_length - 1
                /\ (\A k \in FlushAt : k <= a)
                   => PairsIn(a, Len(sigout)) < pipeline_max_length - 1
          /\ FlushAt = {} => PairsIn(1, Len(sigout)) < pipeline_max_length - 1

\* three flush tokens with changed and unchanged pairs between them
C16_Witness ==
    /\ remote /\ pipeline_max_length = 3
    /\ Cardinality(FlushAt) = 3
    /\ \E a, b \in FlushAt :
          /\ Consecutive(a, b)
          /\ \E k \in a..b : sigout[k] = "sig"
          /\ \E k \in a..(b - 2) : sigout[k] = "pair" /\ sigout[k + 1] = "pair"

\* ==================================================================
\* main_run (specification SpecRun)

\* Globals.RET_CODE_*
RET_CODE_OK == 0
RET_CODE_ERR == 1
RET_CODE_WARN == 2
RET_CODE_FILE_ERR == 4
RET_CODE_FILE_WARN == 8

\* the return codes a stage can give: no bit, each single bit, and two
\* combinations
RetCodes ==
    {RET_CODE_OK, RET_CODE_ERR, RET_CODE_WARN, RET_CODE_FILE_ERR,
     RET_CODE_FILE_WARN, RET_CODE_WARN + RET_CODE_FILE_ERR}

\* the operators | and & on return codes
Bit(a, k) == (a \div (2 ^ k)) % 2
BitOr(a, b) ==
    LET bit(k) == IF Bit(a, k) = 1 \/ Bit(b, k) = 1 THEN 2 ^ k ELSE 0
    IN  bit(0) + bit(1) + bit(2) + bit(3)
BitAnd(a, b) ==
    LET bit(k) == IF Bit(a, k) = 1 /\ Bit(b, k) = 1 THEN 2 ^ k ELSE 0
    IN  bit(0) + bit(1) + bit(2) + bit(3)

\* a variant of the test after a stage that stops at any bit
any_bit(code) == code # RET_CODE_OK

\* ret_val & Globals.RET_CODE_ERR
has_err(code) == BitAnd(code, RET_CODE_ERR) # 0

RunInit ==
    /\ run_at = "verbosity"
    /\ ret_val = 0
    /\ stages = <<>>
    /\ returned = 0
    /\ SessionInit /\ NoChain /\ NoAuxBut("runVars")

runOthers ==
    <<sessionVars, chainVars, markerVars, restoreVars, rfVars, sigVars,
                    fastVars,
                    onesigVars,
                    cachedrfVars,
                    permVars,
                    itrVars>>

\* a stage gave code: ret_val takes it, and main_run returns ret_val if it
\* has the ERR bit or the stage was the last one
stage_done(stage, next_stage, new_ret_val, code) ==
    /\ ret_val' = new_ret_val
    /\ stages' = Append(stages, [stage |-> stage, code |-> code, ok |-> TRUE])
    /\ IF has_err(new_ret_val) \/ next_stage = "returned"
       THEN run_at' = "returned" /\ returned' = new_ret_val
       ELSE run_at' = next_stage /\ UNCHANGED returned
    /\ UNCHANGED runOthers

\* ret_val = log.Log.set_verbosity(...)
SetVerbosity ==
    /\ run_at = "verbosity"
    /\ \E code \in RetCodes : stage_done("verbosity", "pre_check", code, code)

\* ret_val |= action.pre_check()
PreCheck ==
    /\ run_at = "pre_check"
    /\ \E code \in RetCodes :
          stage_done("pre_check", "connect", BitOr(ret_val, code), code)

\* with action.connect() as conn_act: the connection is ok or not, and
\* conn_status is returned if it is not
Connect ==
    /\ run_at = "connect"
    /\ \E conn_status \in RetCodes, is_connection_ok \in BOOLEAN :
          /\ stages' = Append(stages, [stage |-> "connect",
                                       code |-> conn_status,
                                       ok |-> is_connection_ok])
          /\ IF is_connection_ok
             THEN run_at' = "check" /\ UNCHANGED returned
             ELSE run_at' = "returned" /\ returned' = conn_status
    /\ UNCHANGED ret_val
    /\ UNCHANGED runOthers

\* ret_val |= conn_act.check()
Check ==
    /\ run_at = "check"
    /\ \E code \in RetCodes :
          stage_done("check", "setup", BitOr(ret_val, code), code)

\* ret_val |= conn_act.setup()
Setup ==
    /\ run_at = "setup"
    /\ \E code \in RetCodes :
          stage_done("setup", "run", BitOr(ret_val, code), code)

\* ret_val |= conn_act.run(), and the return after the summary
Run ==
    /\ run_at = "run"
    /\ \E code \in RetCodes :
          stage_done("run", "returned", BitOr(ret_val, code), code)

RunNext == SetVerbosity \/ PreCheck \/ Connect \/ Check \/ Setup \/ Run

SpecRun == RunInit /\ [][RunNext]_vars

RECURSIVE OrAll(_)
OrAll(codes) ==
    IF codes = <<>> THEN 0 ELSE BitOr(Head(codes), OrAll(Tail(codes)))

\* C17 as stated: main_run returns the bitwise OR of the return codes of
\* all the stages it executed.
C17_ReturnsOrOfStages ==
    run_at = "returned" =>
        returned = OrAll([k \in DOMAIN stages |-> stages[k].code])

StageOrder == <<"verbosity", "pre_check", "connect", "check", "setup", "run">>

\* ret_val after the first k stages: the connection status is not part of it
Accumulated(k) ==
    OrAll([j \in 1..k |-> IF stages[j].stage = "connect" THEN 0
                          ELSE stages[j].code])

\* a stage after which main_run goes no further
Stops(k) ==
    \/ Bit(Accumulated(k), 0) = 1
    \/ stages[k].stage = "connect" /\ ~stages[k].ok

\* C18: the stages are executed in the order pre_check, connect, check,
\* setup, run (after the verbosity setting); main_run returns after the
\* first stage that leaves the ERR bit in the accumulated result or whose
\* connection is not ok, and executes no stage after it; it is stopped by
\* nothing else, so results with only WARN, FILE_ERR or FILE_WARN bits
\* lead to the next stage.
C18_StagesInOrder ==
    /\ Len(stages) <= Len(StageOrder)
    /\ \A k \in DOMAIN stages :
          /\ stages[k].stage = StageOrder[k]
          /\ k < Len(stages) => ~Stops(k)
    /\ run_at = "returned" <=>
          /\ stages # <<>>
          /\ Stops(Len(stages)) \/ Len(stages) = Len(StageOrder)
    /\ run_at # "returned" => run_at = StageOrder[Len(stages) + 1]

\* all stages were executed, three of them with warnings or file errors
C18_Witness ==
    /\ run_at = "returned"
    /\ Len(stages) = Len(StageOrder)
    /\ stages[2].code = RET_CODE_WARN
    /\ stages[4].code = RET_CODE_FILE_ERR
    /\ stages[5].code = RET_CODE_FILE_WARN
    /\ returned = RET_CODE_WARN + RET_CODE_FILE_ERR + RET_CODE_FILE_WARN

\* ==================================================================
\* One call of fast_process_file, in patch and in patch_and_increment
\* (specification SpecFast)

\* the failures a call can meet, one at most
FastOutcomes == Outcomes \cup {"verifyfail"}

\* the mirror file and the source file of the diff, which differ, and the
\* variant of fast_process_file
FastInit ==
    /\ \E increments \in BOOLEAN, mirror \in {NoRec, Reg(1), Sym, Fifo},
          diff \in {NoRec, Reg(1), Reg(2), Sym, Fifo},
          outcome \in FastOutcomes :
          /\ diff # mirror
          /\ outcome = "incfail" => increments
          /\ fast = [NoFastPath EXCEPT !.increments = increments,
                                       !.mirror = mirror, !.diff = diff,
                                       !.outcome = outcome]
    /\ SessionInit /\ NoChain /\ NoAuxBut("fastVars")

fastOthers ==
    <<sessionVars, chainVars, markerVars, restoreVars, rfVars, sigVars,
      runVars,
                    onesigVars,
                    cachedrfVars,
                    permVars,
                    itrVars>>

\* The diff of the file arrives: the CCPP holds its row, fast_process_file
\* is called, and the session goes on to its end, where the row is evicted.
FastProcess ==
    /\ ~fast.called
    /\ LET S1 == itr_fillers(OnePair(fast.diff, fast.mirror),
                             Fillers(fill, ChainIndex))
           S2 == IF fast.increments
                 THEN fast_process_file(S1, ChainIndex, fast.diff,
                                        fast.outcome)
                 ELSE patch_fast_process_file(S1, ChainIndex, fast.diff,
                                              fast.outcome)
           S3 == IF S2.failure # "none" THEN S2
                 ELSE ccpp_close(finish_processing(S2))
           evicted == {k \in 1..Len(S3.evlog) :
                          S3.evlog[k].index = ChainIndex}
       IN  fast' = [fast EXCEPT
                      !.called = TRUE,
                      !.after = S2.fs[ChainIndex],
                      !.success = IF in_cache(S2, ChainIndex)
                                  THEN S2.cache_dict[ChainIndex].success
                                  ELSE 0,
                      !.wrote = IF evicted = {} THEN NoRec
                                ELSE S3.evlog[CHOOSE k \in evicted : TRUE].wrote,
                      !.did = S2.ops.did,
                      !.failure = S3.failure]
    /\ UNCHANGED fastOthers

FastNext == FastProcess

SpecFast == FastInit /\ [][FastNext]_vars

\* what went wrong in the call
WriteFailed == fast.outcome = "patchfail"
VerifyFailed == fast.outcome = "verifyfail" /\ IsReg(fast.diff)
RenameFailed == \E k \in DOMAIN fast.did : fast.did[k] = "rename_failed"

\* the mirror file is as before, the temp file is deleted, the row has no
\* success and the old dest record is its metadata
NothingDone ==
    /\ fast.did # <<>> /\ fast.did[Len(fast.did)] = "delete_tf"
    /\ fast.after = fast.mirror
    /\ fast.success = 0
    /\ fast.wrote = fast.mirror
    /\ fast.failure = "none"

\* C20 as stated: if writing the temp file, verifying it or renaming it
\* fails, the temp file is deleted, the mirror file keeps its state, the
\* success flag stays 0 and processing continues.
C20_FailureKeepsMirror ==
    fast.called /\ (WriteFailed \/ VerifyFailed \/ RenameFailed)
    => NothingDone

\* C20: if verifying or renaming the temp file fails, or writing it fails
\* and the source file is not a special file, the temp file is deleted, the
\* mirror file keeps its state, the success flag stays 0, the old dest
\* record is the metadata and processing continues; if a special file
\* cannot be written, an empty file with its attributes is renamed onto the
\* mirror file and the row is flagged as a success.
C20_FailureKeepsMirrorUnlessSpecial ==
    fast.called =>
        /\ fast.failure = "none"
        /\ VerifyFailed \/ RenameFailed
           \/ (WriteFailed /\ ~isspecial(fast.diff)) => NothingDone
        /\ WriteFailed /\ isspecial(fast.diff) =>
              /\ fast.after = [t |-> "reg", p |-> fast.diff.p, d |-> 0]
              /\ fast.did[Len(fast.did)] = "rename"
              /\ fast.success = 1
              /\ fast.wrote = fast.diff

\* the temp file of a changed regular file did not match the cached source
\* record in patch_and_increment
C20_Witness ==
    /\ fast.called /\ VerifyFailed /\ fast.increments
    /\ fast.mirror = Reg(1) /\ fast.diff = Reg(2)
    /\ fast.wrote = Reg(1)

\* ==================================================================
\* One call of _get_one_sig (specification SpecOneSig)

\* the index of the pair, and the first index of its group of hard links
SigIndex == <<2>>
LinkIndex == <<1>>

Or400(p) == IF (p \div 256) % 2 = 1 THEN p ELSE p + 256

\* what opening the mirror file can give: the file, or an OSError with one
\* of these errno values
OpenResults == {"ok", "EPERM", "EACCES", "EIO"}

\* the result of _get_one_sig_fp: what ends it ("fp": it returns a file,
\* "None", "FatalError": log.Log.FatalError ends the process, "OSError": the
\* exception goes to the caller), with the calls it made
SigFp(ends, n_opens, chmod_calls, logged) ==
    [ends |-> ends, opens |-> n_opens, chmods |-> chmod_calls,
     errorlog |-> logged]

\* the except branch for EPERM and EACCES: chmod and one more
\* get_signature; any OSError of the two is fatal
retry_once(perms, chmod2, open2) ==
    IF chmod2 # "ok" THEN SigFp("FatalError", 1, <<>>, <<>>)
    ELSE IF open2 = "ok" THEN SigFp("fp", 2, <<Or400(perms)>>, <<>>)
    ELSE SigFp("FatalError", 2, <<Or400(perms)>>, <<>>)

\* _get_one_sig_fp(dest_rp)
get_one_sig_fp(a) ==
    IF ~a.isreg
    THEN SigFp("None", 0, <<>>, <<"UpdateError">>)
    ELSE
      LET first == IF a.uid # 0 /\ ~a.readable /\ a.isowner
                   THEN <<Or400(a.dest.p)>> ELSE <<>>
          r == IF a.open1 = "ok" THEN SigFp("fp", 1, <<>>, <<>>)
               ELSE IF a.open1 \in {"EPERM", "EACCES"}
               THEN retry_once(a.dest.p, a.chmod2, a.open2)
               ELSE SigFp("OSError", 1, <<>>, <<>>)
      IN  [r EXCEPT !.chmods = first \o @]

\* a variant of _get_one_sig that looks at the dest record first and gives
\* the stub of a linked file only when there is none
get_one_sig_dest_first(a) ==
    LET done(ret, sig, file, linked, fp) ==
            [a EXCEPT !.called = TRUE, !.ret = ret, !.sig = sig,
                      !.file = file, !.linked = linked, !.opens = fp.opens,
                      !.chmods = fp.chmods, !.errorlog = fp.errorlog]
        nofp == SigFp("None", 0, <<>>, <<>>)
    IN  IF Present(a.dest)
        THEN IF IsReg(a.dest)
             THEN LET fp == get_one_sig_fp(a)
                  IN  IF fp.ends = "fp"
                      THEN done("sig", a.dest, TRUE, <<>>, fp)
                      ELSE done(fp.ends, NoRec, FALSE, <<>>, fp)
             ELSE done("sig", a.dest, FALSE, <<>>, nofp)
        ELSE IF a.preserve_hardlinks /\ Present(a.src) /\ a.is_linked
        THEN done("sig", NoRec, FALSE, LinkIndex, nofp)
        ELSE done("sig", NoRec, FALSE, <<>>, nofp)

\* _get_one_sig(dest_base_rpath, index, src_rorp, dest_rorp)
get_one_sig(a) ==
    LET done(ret, sig, file, linked, fp) ==
            [a EXCEPT !.called = TRUE, !.ret = ret, !.sig = sig,
                      !.file = file, !.linked = linked, !.opens = fp.opens,
                      !.chmods = fp.chmods, !.errorlog = fp.errorlog]
        nofp == SigFp("None", 0, <<>>, <<>>)
    IN  IF a.preserve_hardlinks /\ Present(a.src) /\ a.is_linked
        THEN done("sig", NoRec, FALSE, LinkIndex, nofp)
        ELSE IF Present(a.dest)
        THEN IF IsReg(a.dest)
             THEN LET fp == get_one_sig_fp(a)
                  IN  IF fp.ends = "fp"
                      THEN done("sig", a.dest, TRUE, <<>>, fp)
                      ELSE done(fp.ends, NoRec, FALSE, <<>>, fp)
             ELSE done("sig", a.dest, FALSE, <<>>, nofp)
        ELSE done("sig", NoRec, FALSE, <<>>, nofp)

\* a pair whose records differ, and the mirror file as it is when the
\* signature is asked for
OneSigInit ==
    /\ \E preserve_hardlinks \in BOOLEAN, src \in {NoRec, Reg(1), Reg(2), Sym},
          is_linked \in BOOLEAN, dest \in {NoRec, Reg(1), Sym, Dir(PermHigh)},
          uid \in {0, process_uid}, isreg \in BOOLEAN, readable \in BOOLEAN,
          isowner \in BOOLEAN, open1 \in OpenResults,
          chmod2 \in {"ok", "OSError"}, open2 \in {"ok", "OSError"} :
          /\ src # dest
          /\ is_linked => Present(src)
          /\ isreg => IsReg(dest)
          /\ onesig = [NoOneSig EXCEPT
                         !.preserve_hardlinks = preserve_hardlinks,
                         !.src = src, !.is_linked = is_linked, !.dest = dest,
                         !.uid = uid, !.isreg = isreg, !.readable = readable,
                         !.isowner = isowner, !.open1 = open1,
                         !.chmod2 = chmod2, !.open2 = open2]
    /\ SessionInit /\ NoChain /\ NoAuxBut("onesigVars")

onesigOthers ==
    <<sessionVars, chainVars, markerVars, restoreVars, rfVars, sigVars,
      runVars, fastVars, cachedrfVars,
                    permVars,
                    itrVars>>

\* get_sigs has found the records of the pair to differ
GetOneSig ==
    /\ ~onesig.called
    /\ onesig' = get_one_sig(onesig)
    /\ UNCHANGED onesigOthers

OneSigNext == GetOneSig

SpecOneSig == OneSigInit /\ [][OneSigNext]_vars

\* the first open failed with a permission error
PermError == onesig.open1 \in {"EPERM", "EACCES"}

\* _get_one_sig_fp was entered and found a regular file
AskedForFp ==
    /\ onesig.called /\ IsReg(onesig.dest) /\ onesig.isreg
    /\ ~(onesig.preserve_hardlinks /\ onesig.is_linked)

\* C21 as stated: after a permission error the open is retried once after
\* chmod u+r, and if the retry fails too no signature is produced for the
\* file and the session continues with the next pair.
C21_SecondFailureSkipsFile ==
    AskedForFp /\ PermError /\ onesig.chmod2 = "ok" /\ onesig.open2 # "ok"
    => /\ onesig.opens = 2
       /\ onesig.ret = "None"

\* the stub of a hard-linked file, and the record with nothing but the index
Stub ==
    /\ onesig.ret = "sig" /\ onesig.sig = NoRec /\ ~onesig.file
    /\ onesig.linked = LinkIndex /\ onesig.opens = 0
Bare ==
    /\ onesig.ret = "sig" /\ onesig.sig = NoRec /\ ~onesig.file
    /\ onesig.linked = <<>> /\ onesig.opens = 0
DestCopy(with_file) ==
    /\ onesig.ret = "sig" /\ onesig.sig = onesig.dest
    /\ onesig.file = with_file /\ onesig.linked = <<>>
FollowUp ==
    onesig.preserve_hardlinks /\ Present(onesig.src) /\ onesig.is_linked

\* C27 as stated: the stub for a hard-link followup, otherwise a copy of the
\* dest record, with the signature when dest is a regular file, otherwise
\* the bare record.
C27_SigForEveryPair ==
    onesig.called =>
        IF FollowUp THEN Stub
        ELSE IF Present(onesig.dest) THEN DestCopy(IsReg(onesig.dest))
        ELSE Bare

\* the mirror file is a regular file and can be opened, at once or after
\* the chmod that follows a permission error
CanOpen ==
    /\ onesig.isreg
    /\ \/ onesig.open1 = "ok"
       \/ PermError /\ onesig.chmod2 = "ok" /\ onesig.open2 = "ok"

\* C27: the stub for a hard-link followup whatever the dest record is;
\* otherwise a copy of the dest record, with the signature of the mirror
\* file if dest is a regular file and the file can be opened, and no
\* signature record at all if it cannot; otherwise the bare record.
C27_SigUnlessUnreadable ==
    onesig.called =>
        IF FollowUp THEN Stub
        ELSE IF Present(onesig.dest)
        THEN IF IsReg(onesig.dest)
             THEN IF CanOpen THEN DestCopy(TRUE)
                  ELSE /\ onesig.ret # "sig" /\ ~onesig.file
                       /\ ~onesig.isreg => onesig.ret = "None"
             ELSE DestCopy(FALSE)
        ELSE Bare

\* a hard-link followup whose dest record is a regular file
C27_Witness ==
    /\ onesig.called /\ FollowUp /\ IsReg(onesig.dest)
    /\ onesig.linked = LinkIndex

\* ---------------------------------------------------------------------
\* _CachedRF: get_fp, _get_rf and _add_rfs
\* ---------------------------------------------------------------------

MaxRequests == 3

NonRoot == Indices \ {<<>>}

\* a repository holds a file only inside a directory it holds
RepoSets == {r \in SUBSET NonRoot : \A i \in r : Len(i) > 1 => Parent(i) \in r}

RECURSIVE SortIdx(_)
SortIdx(s) ==
    IF s = {} THEN <<>>
    ELSE LET lo == CHOOSE i \in s : \A j \in s \ {i} : IdxLess(i, j)
         IN  <<lo>> \o SortIdx(s \ {lo})

\* the RestoreFiles of the directory of index, were they yielded last first
sub_rfs_reversed(repo, index) ==
    Reverse(SortIdx({i \in repo : Parent(i) = Parent(index)}))

\* list(temp_rf.yield_sub_rfs()) for the directory of index
sub_rfs(repo, index) ==
    SortIdx({i \in repo : Parent(i) = Parent(index)})

\* _get_rf: the while loop, one iteration per unfolding.  added says that
\* _add_rfs already prepended the directory of index during this call; a
\* second _add_rfs then finds the list as it was before the first one and
\* the loop never ends.  For the root index _add_rfs returns root_rf, which
\* is true, and adds nothing: rf_list[0] raises IndexError on an empty list,
\* and with a head the loop comes back to the same test.
RECURSIVE get_rf(_, _, _, _)
get_rf(list, index, repo, added) ==
    LET new_rfs == sub_rfs(repo, index)
        add_rfs == IF index = <<>>
                   THEN [ret |-> IF list = <<>> THEN "IndexError" ELSE "hang",
                         list |-> list]
                   ELSE IF new_rfs = <<>> THEN [ret |-> "None", list |-> list]
                   ELSE IF added THEN [ret |-> "hang", list |-> list]
                   ELSE get_rf(new_rfs \o list, index, repo, TRUE)
    IN  IF list = <<>> THEN add_rfs
        ELSE IF list[1] = index THEN [ret |-> "rf", list |-> list]
        ELSE IF IdxLess(index, list[1])
             THEN IF Parent(index) = Parent(list[1])
                  THEN [ret |-> "None", list |-> list]
                  ELSE add_rfs
        ELSE get_rf(Tail(list), index, repo, added)

\* the same loop, were a request below the head of its own directory to
\* end the session
get_rf_fatal(list, index, repo, added) ==
    IF /\ list # <<>>
       /\ IdxLess(index, list[1])
       /\ Parent(index) = Parent(list[1])
    THEN [ret |-> "fatal", list |-> list]
    ELSE get_rf(list, index, repo, added)

\* get_fp: an empty file and a warning when there is no RestoreFile
get_fp(list, index, repo) ==
    LET r == get_rf(list, index, repo, FALSE)
    IN  [index |-> index,
         head |-> IF list = <<>> THEN <<"empty">> ELSE <<"rf", list[1]>>,
         ret |-> r.ret, list |-> r.list,
         fp |-> CASE r.ret = "rf" -> "restore_fp"
                  [] r.ret = "None" -> "BytesIO()"
                  [] OTHER -> "none",
         warning |-> r.ret = "None"]

CachedRFInit ==
    /\ rf_repo \in RepoSets
    /\ rf_list = <<>>
    /\ rf_requests = <<>>
    /\ SessionInit /\ NoChain /\ NoAuxBut("cachedrfVars")

cachedrfOthers ==
    <<sessionVars, chainVars, markerVars, restoreVars, rfVars, sigVars,
      runVars, fastVars, onesigVars,
                    permVars,
                    itrVars>>

\* one get_fp call; a call that raises or never returns ends the history
GetFp ==
    /\ Len(rf_requests) < MaxRequests
    /\ \A k \in 1..Len(rf_requests) : rf_requests[k].ret \in {"rf", "None"}
    /\ \E index \in Indices :
        LET r == get_fp(rf_list, index, rf_repo)
        IN  /\ rf_list' = r.list
            /\ rf_requests' = Append(rf_requests, r)
    /\ UNCHANGED <<rf_repo, cachedrfOthers>>

CachedRFNext == GetFp

SpecCachedRF == CachedRFInit /\ [][CachedRFNext]_vars

\* a request below the head of the cache, in the head's directory
Backward(r) ==
    /\ r.head[1] = "rf"
    /\ IdxLess(r.index, r.head[2])
    /\ Parent(r.index) = Parent(r.head[2])

\* C22: a request that goes backward within the directory of the cache
\* head fails and ends the session; it is not answered with data
C22_BackwardRequestIsFatal ==
    \A k \in 1..Len(rf_requests) :
        Backward(rf_requests[k]) =>
            /\ rf_requests[k].ret = "fatal"
            /\ rf_requests[k].fp = "none"

\* ---------------------------------------------------------------------
\* _PermissionChanger
\* ---------------------------------------------------------------------

MaxCalls == 4

RegP(p) == [t |-> "reg", p |-> p, d |-> 1]

\* rp.readable() and rp.executable() for the owner of the path
readable(p) == (p \div 256) % 2 = 1
executable(p) == (p \div 64) % 2 = 1

\* mirror trees: 0o300, 0o450 and 0o755 directories, a 0o200 file in the
\* place of a directory; 0o200 and 0o644 files inside the directories
PermTrees ==
    {f \in [NonRoot -> {NoRec, Dir(192), Dir(296), Dir(493), RegP(128),
                        RegP(420)}] :
        \A i \in NonRoot :
            /\ Len(i) = 1 => f[i] \in {Dir(192), Dir(296), Dir(493), RegP(128)}
            /\ Len(i) > 1 => /\ ~IsDir(f[i])
                             /\ ~IsDir(f[Parent(i)]) => f[i] = NoRec}

\* _restore_old, were every entry restored at every call
RECURSIVE restore_old_all(_, _)
restore_old_all(S, index) ==
    IF S.list = <<>> THEN S
    ELSE restore_old_all(
             [fs |-> [S.fs EXCEPT ![S.list[1].index].p = S.list[1].perms],
              list |-> Tail(S.list)], index)

\* _restore_old
RECURSIVE restore_old(_, _)
restore_old(S, index) ==
    IF S.list = <<>> THEN S
    ELSE LET old == S.list[1]
         IN  IF IdxLess(old.index, Prefix(index, Len(old.index)))
             THEN restore_old([fs |-> [S.fs EXCEPT ![old.index].p = old.perms],
                               list |-> Tail(S.list)], index)
             ELSE S

\* _get_new_rp_list, as the indices of the rps it yields
get_new_rp_list(old_index, index) ==
    LET common_prefix_len ==
            CHOOSE i \in 0..(Len(index) - 1) :
                /\ Prefix(old_index, i) = Prefix(index, i)
                /\ \A j \in (i + 1)..(Len(index) - 1) :
                       Prefix(old_index, j) # Prefix(index, j)
    IN  [k \in 1..(Len(index) - common_prefix_len) |->
            Prefix(index, common_prefix_len + k)]

needs_chmod(rp) ==
    \/ IsReg(rp) /\ ~readable(rp.p)
    \/ IsDir(rp) /\ ~(executable(rp.p) /\ readable(rp.p))

\* the chmod of _add_chmod_new, were the old permissions replaced by 0o700
relaxed_perms_plain(rp) == IF IsReg(rp) THEN Or400(rp.p) ELSE 448

\* the chmod of _add_chmod_new
relaxed_perms(rp) == IF IsReg(rp) THEN Or400(rp.p) ELSE Or700(rp.p)

\* _add_chmod_new, over the rps of _get_new_rp_list
RECURSIVE add_chmod_new(_, _)
add_chmod_new(S, rps) ==
    IF rps = <<>> THEN S
    ELSE LET rp == S.fs[rps[1]]
         IN  IF needs_chmod(rp)
             THEN add_chmod_new(
                      [fs |-> [S.fs EXCEPT ![rps[1]].p = relaxed_perms(rp)],
                       list |-> <<[index |-> rps[1], perms |-> rp.p]>>
                                    \o S.list],
                      Tail(rps))
             ELSE add_chmod_new(S, Tail(rps))

\* __call__, without the assignment to perm_index
perm_changer(S, old_index, index) ==
    IF index = <<>> \/ index = old_index \/ IdxLess(index, old_index) THEN S
    ELSE add_chmod_new(restore_old(S, index),
                       get_new_rp_list(old_index, index))

\* finish
RECURSIVE finish(_)
finish(S) ==
    IF S.list = <<>> THEN S
    ELSE LET r == finish([S EXCEPT !.list = Tail(S.list)])
         IN  [fs |-> [r.fs EXCEPT ![S.list[1].index].p = S.list[1].perms],
              list |-> <<S.list[1]>> \o r.list]

PermInit ==
    /\ perm_fs \in PermTrees
    /\ perm_index = <<>>
    /\ open_index_list = <<>>
    /\ perm_hist = [orig |-> perm_fs, calls |-> 0, ordered |-> TRUE,
                    done |-> FALSE, index |-> <<>>, before |-> <<>>]
    /\ SessionInit /\ NoChain /\ NoAuxBut("permVars")

permOthers ==
    <<sessionVars, chainVars, markerVars, restoreVars, rfVars, sigVars,
      runVars, fastVars, onesigVars, cachedrfVars,
                    itrVars>>

\* one call of the changer by _get_rf or _add_rfs
PermCall ==
    /\ ~perm_hist.done
    /\ perm_hist.calls < MaxCalls
    /\ \E index \in Indices :
        LET r == perm_changer([fs |-> perm_fs, list |-> open_index_list],
                              perm_index, index)
        IN  /\ perm_index' = index
            /\ perm_fs' = r.fs
            /\ open_index_list' = r.list
            /\ perm_hist' =
                   [perm_hist EXCEPT
                      !.calls = @ + 1,
                      !.ordered = @ /\ ~IdxLess(index, perm_index),
                      !.index = index,
                      !.before = open_index_list]
    /\ UNCHANGED permOthers

\* _CachedRF.close
PermFinish ==
    /\ ~perm_hist.done
    /\ LET r == finish([fs |-> perm_fs, list |-> open_index_list])
       IN  /\ perm_fs' = r.fs
           /\ open_index_list' = r.list
    /\ perm_hist' = [perm_hist EXCEPT !.done = TRUE]
    /\ UNCHANGED <<perm_index, permOthers>>

PermNext == PermCall \/ PermFinish

SpecPerm == PermInit /\ [][PermNext]_vars

\* the positions of a path in the elevation stack
StackPos(i) == {k \in 1..Len(open_index_list) : open_index_list[k].index = i}

\* C23: after finish every path has the mode it had before the changer
\* relaxed it; while a path is relaxed, a directory has 0o700 | old and a
\* regular file 0o400 | old, and the stack holds the path once
C23_RelaxedModesRestored ==
    /\ perm_hist.done => perm_fs = perm_hist.orig
    /\ ~perm_hist.done =>
           \A i \in NonRoot :
               /\ Cardinality(StackPos(i)) <= 1
               /\ StackPos(i) = {} => perm_fs[i] = perm_hist.orig[i]
               /\ \A k \in StackPos(i) :
                      /\ open_index_list[k].perms = perm_hist.orig[i].p
                      /\ needs_chmod(perm_hist.orig[i])
                      /\ perm_fs[i] =
                             [perm_hist.orig[i] EXCEPT
                                !.p = IF IsDir(perm_hist.orig[i])
                                      THEN Or700(perm_hist.orig[i].p)
                                      ELSE Or400(perm_hist.orig[i].p)]

\* finish has restored a directory with group bits and a regular file,
\* after calls that went backward
C23_Witness ==
    /\ perm_hist.done
    /\ ~perm_hist.ordered
    /\ \E j, k \in 1..Len(open_index_list) :
           /\ perm_hist.orig[open_index_list[j].index] = Dir(296)
           /\ IsReg(perm_hist.orig[open_index_list[k].index])
    /\ perm_fs = perm_hist.orig

\* the stack lies along the path of the current index, deeper entries first
StackAlongPath ==
    /\ \A k \in 1..Len(open_index_list) :
           IsPrefix(open_index_list[k].index, perm_index)
    /\ \A j, k \in 1..Len(open_index_list) :
           j < k => Len(open_index_list[j].index) > Len(open_index_list[k].index)

\* the last call kept the entries above the index and restored the others
PoppedWhenLeft ==
    \A k \in 1..Len(perm_hist.before) :
        LET old == perm_hist.before[k]
        IN  IF IsPrefix(old.index, perm_hist.index)
            THEN /\ StackPos(old.index) # {}
                 /\ perm_fs[old.index].p # old.perms
            ELSE /\ StackPos(old.index) = {}
                 /\ perm_fs[old.index].p = old.perms

\* C24: with calls in non-decreasing order of index, after every call the
\* stack is ordered along the path of the current index (every entry the
\* index or a prefix of it, deeper entries nearer the top), and an entry is
\* popped and restored at the first call outside its subtree
C24_StackFollowsWalk ==
    (perm_hist.ordered /\ ~perm_hist.done /\ perm_hist.calls > 0) =>
        StackAlongPath /\ PoppedWhenLeft

\* an ordered walk has left a relaxed directory and its relaxed file for a
\* path that needs elevation again
C24_Witness ==
    /\ perm_hist.ordered /\ ~perm_hist.done
    /\ Len(perm_hist.before) = 2
    /\ \A k \in 1..2 : ~IsPrefix(perm_hist.before[k].index, perm_hist.index)
    /\ Len(open_index_list) = 2

\* ---------------------------------------------------------------------
\* The size of the CCPP: set_rorp_cache and __next__
\* ---------------------------------------------------------------------

MaxCacheRows == 6
MaxCachePipeline == 1

\* the cache size set_rorp_cache gives to the CCPP
set_rorp_cache(pml) == pml * 4

CacheRecs == {NoRec, Reg(1), Dir(PermHigh)}

CacheInit ==
    /\ pipeline_max_length \in 1..MaxCachePipeline
    /\ remote = FALSE /\ num_rorps_seen = 0 /\ sigout = <<>>
    /\ cache_size = set_rorp_cache(pipeline_max_length)
    /\ markers = {prev_time}
    /\ IdleCCPP /\ NoChain /\ NoAuxBut("sigVars")

cacheOthers ==
    <<chainVars, markerVars, restoreVars, rfVars, runVars, fastVars,
      onesigVars, cachedrfVars, permVars,
                    itrVars>>

\* __next__ of the CCPP, for the next pair of the collated iterator
CacheNext ==
    /\ ~sigdone /\ Len(stream) < MaxCacheRows
    /\ \E index \in Indices, src \in CacheRecs, dest \in CacheRecs :
        /\ ValidPair(index, src, dest)
        /\ LET S0 == [Cur EXCEPT !.fs[index] = dest]
           IN  Commit(ccpp_next(S0, index, src, dest))
        /\ stream' = Append(stream, [index |-> index, src |-> src,
                                     dest |-> dest])
    /\ UNCHANGED <<pc, markers, sigdone, cache_size, diffq, fill, sigVars>>
    /\ UNCHANGED cacheOthers

\* the collated iterator is exhausted and the CCPP is closed
CacheClose ==
    /\ ~sigdone /\ stream # <<>>
    /\ sigdone' = TRUE
    /\ Commit(ccpp_close(Cur))
    /\ UNCHANGED <<pc, markers, stream, cache_size, diffq, fill, sigVars>>
    /\ UNCHANGED cacheOthers

CacheSizeNext == CacheNext \/ CacheClose

SpecCache == CacheInit /\ [][CacheSizeNext]_vars

\* C25: the CCPP holds at most cache_size = 4 * pipeline_max_length rows
\* after every __next__, in cache_indices and in cache_dict
C25_CacheBounded ==
    /\ cache_size = 4 * pipeline_max_length
    /\ Len(cache_indices) <= cache_size
    /\ Cardinality(DOMAIN cache_dict) <= cache_size

\* more pairs than the cache holds have been pulled and the cache is full
C25_Witness ==
    /\ Len(stream) > cache_size
    /\ Len(cache_indices) = cache_size
    /\ Cardinality(DOMAIN cache_dict) = cache_size
    /\ ~sigdone

\* ---------------------------------------------------------------------
\* A fatal error in the loop of patch and patch_and_increment
\* ---------------------------------------------------------------------

\* the loop, were it closed by a finally clause that closes the CCPP
patch_fatal_closing(S) ==
    ccpp_close([S EXCEPT !.failure = "fatal error in patch"])

\* An exception leaves the for loop over the diffs: neither patch nor
\* patch_and_increment catches it, and the statements after the loop are
\* not reached.
patch_fatal(S) == [S EXCEPT !.failure = "fatal error in patch"]

\* the diff iterator or the tree reducer raises before the last diff
PatchFatal ==
    /\ pc = "run" /\ ~(sigdone /\ diffq = <<>>)
    /\ Commit(patch_fatal(Cur))
    /\ pc' = "crashed"
    /\ UNCHANGED <<markers, stream, sigdone, cache_size, diffq, fill>>
    /\ UNCHANGED chainVars
    /\ UNCHANGED auxVars

InterruptNext == Next \/ PatchFatal

SpecInterrupt == Init /\ [][InterruptNext]_vars

\* C26: after a fatal error before the end of the diff stream the CCPP is
\* not closed: the rows in the cache have no metadata and were not
\* post-processed, the metadata writer is open and ConvertMetaToDiff has
\* not run
C26_FatalLeavesCacheOpen ==
    failure = "fatal error in patch" =>
        /\ metastate = "open"
        /\ \A k \in 1..Len(cache_indices) :
               /\ \A j \in 1..Len(meta) : meta[j].index # cache_indices[k]
               /\ \A j \in 1..Len(evlog) : evlog[j].index # cache_indices[k]
               /\ cache_indices[k] \in DOMAIN cache_dict

\* the error came after a diff was patched and a row was committed, with
\* rows still in the cache and diffs still to come
C26_Witness ==
    /\ failure = "fatal error in patch"
    /\ pc = "crashed"
    /\ fill.started
    /\ meta # <<>>
    /\ cache_indices # <<>>
    /\ diffq # <<>>

\* ---------------------------------------------------------------------
\* _pre_process on the first pair, for every mode of the destination
\* ---------------------------------------------------------------------

\* the modes 0 .. 0o7777
AllPerms == 0..(8 * 8 * 8 * 8 - 1)

PreIndex == <<1>>

\* bit b of a mode, bit 0 being other-execute and bit 8 owner-read
PermBit(p, b) == (p \div (2 ^ b)) % 2

PreInit ==
    /\ markers = {prev_time}
    /\ pc = "init"
    /\ stream = <<>>
    /\ sigdone = FALSE
    /\ cache_size \in 1..SmallCache
    /\ cache_dict = <<>>
    /\ cache_indices = <<>>
    /\ dir_perms_list = <<>>
    /\ parent_list = <<>>
    /\ meta = <<>>
    /\ metastate = "open"
    /\ evlog = <<>>
    /\ chmods = <<>>
    /\ failure = "none"
    /\ \E p \in AllPerms :
           fs = [i \in Indices |-> IF i = PreIndex THEN Dir(p) ELSE NoRec]
    /\ diffq = <<>>
    /\ fill = [started |-> FALSE, old_index |-> <<>>]
    /\ branches = <<>>
    /\ incs = [i \in Indices |-> "none"]
    /\ ops = [index |-> <<>>, inc |-> "none", old |-> NoRec, did |-> <<>>]
    /\ NoChain /\ NoAux

\* __next__ for a pair whose dest record is the directory
PreNext ==
    /\ stream = <<>>
    /\ \E src \in {NoRec, Reg(1), Dir(PermLow), Dir(PermHigh), fs[PreIndex]} :
        /\ Commit(ccpp_next(Cur, PreIndex, src, fs[PreIndex]))
        /\ stream' = <<[index |-> PreIndex, src |-> src, dest |-> fs[PreIndex]]>>
    /\ UNCHANGED <<pc, markers, sigdone, cache_size, diffq, fill>>
    /\ UNCHANGED chainVars
    /\ UNCHANGED auxVars

SpecPre == PreInit /\ [][PreNext]_vars

\* _pre_process has elevated the directory of the pair
PreElevated ==
    /\ stream # <<>>
    /\ \E k \in 1..Len(chmods) :
           chmods[k].index = PreIndex /\ chmods[k].by = "init"

\* the mode of the directory is 0o700 | old, bit by bit
OwnerBitsAdded ==
    \A b \in 0..11 :
        PermBit(fs[PreIndex].p, b) =
            IF b \in 6..8 THEN 1 ELSE PermBit(stream[1].dest.p, b)

C29_ElevatedIffUnreadable ==
    stream # <<>> => (PreElevated <=> PermBit(stream[1].dest.p, 8) = 0)

\* C29 amended: the directory is elevated if and only if one of the
\* owner's read, write and execute bits is off
C29_ElevatedIffOwnerBitOff ==
    stream # <<>> =>
        (PreElevated <=> \E b \in 6..8 : PermBit(stream[1].dest.p, b) = 0)

\* a directory its owner can read but not write, elevated
C29_Witness ==
    /\ PreElevated
    /\ stream[1].dest.p = 365
    /\ fs[PreIndex].p = 493

\* ---------------------------------------------------------------------
\* The order of the calls of the tree reducer
\* ---------------------------------------------------------------------

\* the end_process_directory calls that took S.branches down to n branches,
\* the top branch first; copy says that the call copies the attributes
EndEvents(S, n) ==
    [k \in 1..(Len(S.branches) - n) |->
        LET b == S.branches[Len(S.branches) + 1 - k]
        IN  [op |-> "end", index |-> b.base_index,
             copy |-> Present(b.dir_update)]]

\* what one call of the tree reducer calls, as itr_call does it
CallEvents(S, index, diff_rorp) ==
    LET S1 == IF S.branches = <<>> THEN S ELSE finish_branches(S, index)
        S2 == itr_call(S, index, diff_rorp, "ok")
    IN  EndEvents(S, Len(S1.branches))
        \o (IF S2.failure # "none" /\ S2.branches = S1.branches THEN <<>>
            ELSE <<[op |-> IF Len(S2.branches) > Len(S1.branches)
                               /\ ~can_fast_process(S1, index, diff_rorp)
                           THEN "start" ELSE "fast",
                    index |-> index, copy |-> FALSE]>>)

\* the calls for the fillers of FillInIter
RECURSIVE FillerEvents(_, _)
FillerEvents(S, fillers) ==
    IF fillers = <<>> THEN <<>>
    ELSE CallEvents(S, Head(fillers), S.fs[Head(fillers)])
         \o FillerEvents(itr_call(S, Head(fillers), S.fs[Head(fillers)], "ok"),
                         Tail(fillers))

ItrInit == SessionInit /\ NoChain /\ NoAuxBut("itrVars") /\ itrlog = <<>>

itrOthers ==
    <<markerVars, restoreVars, rfVars, sigVars, runVars, fastVars,
      onesigVars, cachedrfVars, permVars>>

ItrPatch ==
    /\ PatchStep
    /\ LET index == Head(diffq)
           fillers == Fillers(fill, index)
       IN  itrlog' = itrlog \o FillerEvents(Cur, fillers)
                     \o CallEvents(itr_fillers(Cur, fillers), index,
                                   StreamRow(index).src)
    /\ UNCHANGED itrOthers

ItrPatchFinish ==
    /\ PatchFinishStep
    /\ itrlog' = itrlog \o EndEvents(Cur, Len(finish_processing(Cur).branches))
    /\ UNCHANGED itrOthers

ItrNext ==
    \/ TouchCurrentMirror
    \/ GetSigs
    \/ GetSigsEnd
    \/ ItrPatch
    \/ ItrPatchFinish
    \/ RemoveCurrentMirror

SpecITR == ItrInit /\ [][ItrNext]_vars

IsStart(k) == itrlog[k].op = "start"
IsEnd(k) == itrlog[k].op = "end"
Below(d, i) == IsPrefix(d, i) /\ i # d

\* the end_process_directory call of the branch started at position s
EndOf(s) == {e \in (s + 1)..Len(itrlog) :
                IsEnd(e) /\ itrlog[e].index = itrlog[s].index}

\* C30: the attribute copy onto a directory comes after every call for a
\* descendant of it; every start_process_directory has one
\* end_process_directory, the pairs are nested, and no branch is open once
\* the diffs are exhausted
C30_EndAfterDescendants ==
    /\ \A e \in 1..Len(itrlog) :
           IsEnd(e) =>
               /\ \A c \in 1..Len(itrlog) :
                      Below(itrlog[e].index, itrlog[c].index) => c < e
               /\ \E s \in 1..(e - 1) : IsStart(s) /\ e \in EndOf(s)
    /\ \A s \in 1..Len(itrlog) :
           IsStart(s) =>
               /\ Cardinality(EndOf(s)) <= 1
               /\ Cardinality({k \in 1..Len(itrlog) :
                      IsStart(k) /\ itrlog[k].index = itrlog[s].index}) = 1
               /\ EndOf(s) = {} =>
                      \E k \in 1..Len(branches) :
                          branches[k].base_index = itrlog[s].index
               /\ \A t \in (s + 1)..Len(itrlog), e \in EndOf(s) :
                      t < e =>
                          /\ Below(itrlog[s].index, itrlog[t].index)
                          /\ IsStart(t) => \E f \in EndOf(t) : f < e
    /\ pc \in {"closed", "done"} =>
           /\ branches = <<>>
           /\ \A s \in 1..Len(itrlog) : IsStart(s) => EndOf(s) # {}
           /\ \A k \in 1..Len(evlog) :
                  evlog[k].changed = 1 =>
                      \E c \in 1..Len(itrlog) :
                          /\ ~IsEnd(c)
                          /\ itrlog[c].index = evlog[k].index

\* a directory updated by a diff got its attributes after a file and a
\* directory below it were processed, and the session was closed
C30_Witness ==
    /\ pc = "closed"
    /\ \E e, s, c \in 1..Len(itrlog) :
           /\ IsEnd(e) /\ itrlog[e].copy /\ itrlog[e].index = <<>>
           /\ IsStart(s) /\ Below(<<>>, itrlog[s].index) /\ s < e
           /\ itrlog[c].op = "fast" /\ Below(itrlog[s].index, itrlog[c].index)

\* ---------------------------------------------------------------------
\* The owner bits end_process_directory adds (specification Spec)
\* ---------------------------------------------------------------------

\* the rows whose directory got its attributes from a diff whose mode
\* lacks one of the owner's bits
KeptReadable ==
    {k \in 1..Len(stream) :
        /\ IsDir(stream[k].src) /\ stream[k].src # stream[k].dest
        /\ process_uid # 0 /\ stream[k].src.p % 512 < 448
        /\ IsDir(fs[stream[k].index])}

\* C31: the owner bits end_process_directory adds are temporary: once
\* close() has returned, every directory updated by a diff has the mode of
\* the diff, the mode committed to the metadata
C31_OwnerBitsAreTemporary ==
    Closed =>
        \A k \in KeptReadable : fs[stream[k].index].p = stream[k].src.p

\* ---------------------------------------------------------------------
\* A collated stream that delivers an index twice
\* ---------------------------------------------------------------------

MaxDupRows == 4

\* A pair of the collated iterator, which may deliver the index before it
\* a second time: one of the two collated iterators has yielded its record
\* twice, and the second one comes with no record of the other side.
DupPair(index, src, dest) ==
    /\ Present(src) \/ Present(dest)
    /\ IF stream = <<>>
       THEN index = <<>> /\ IsDir(src) /\ IsDir(dest)
       ELSE /\ \/ IdxLess(stream[Len(stream)].index, index)
               \/ /\ stream[Len(stream)].index = index
                  /\ Cardinality({k \in 1..Len(stream) :
                                     stream[k].index = index}) < 2
                  /\ \/ src = stream[Len(stream)].src /\ dest = NoRec
                     \/ dest = stream[Len(stream)].dest /\ src = NoRec
            /\ index # <<>> =>
                   /\ InStream(Parent(index))
                   /\ \E k \in 1..Len(stream) :
                          /\ stream[k].index = Parent(index)
                          /\ IsDir(stream[k].src) \/ IsDir(stream[k].dest)

\* __next__ of the CCPP for the next pair
DupNext ==
    /\ pc = "init" /\ Len(stream) < MaxDupRows
    /\ \E index \in Indices, src \in CacheRecs, dest \in CacheRecs :
        /\ DupPair(index, src, dest)
        /\ LET S0 == [Cur EXCEPT !.fs[index] = dest]
           IN  Commit(ccpp_next(S0, index, src, dest))
        /\ stream' = Append(stream, [index |-> index, src |-> src,
                                     dest |-> dest])
    /\ UNCHANGED <<pc, markers, sigdone, cache_size, diffq, fill>>
    /\ UNCHANGED chainVars
    /\ UNCHANGED auxVars

\* the iterator is exhausted: close()
DupClose ==
    /\ pc = "init" /\ stream # <<>>
    /\ Commit(ccpp_close(Cur))
    /\ pc' = "closed"
    /\ UNCHANGED <<markers, stream, sigdone, cache_size, diffq, fill>>
    /\ UNCHANGED chainVars
    /\ UNCHANGED auxVars

DupCacheNext == DupNext \/ DupClose

SpecDup == Init /\ [][DupCacheNext]_vars

\* the positions of the stream that repeat the index before them
Repeats == {k \in 2..Len(stream) : stream[k].index = stream[k - 1].index}

\* C32: when the stream delivers an index twice, the eviction that finds no
\* row does nothing and raises nothing: every index is post-processed once
\* and gets metadata at most once, and the session runs to its end with
\* every other row committed
C32_DuplicateIsOnlyAWarning ==
    /\ failure = "none"
    /\ \A j, k \in 1..Len(evlog) : evlog[j].index = evlog[k].index => j = k
    /\ \A j, k \in 1..Len(meta) : meta[j].index = meta[k].index => j = k
    /\ Len(evlog) + Len(cache_indices) <= Len(stream)
    /\ Closed =>
           /\ cache_indices = <<>> /\ cache_dict = <<>>
           /\ Len(evlog) = Len(stream) - Cardinality(Repeats)
           /\ \A k \in 1..Len(stream) :
                  \E j \in 1..Len(evlog) : evlog[j].index = stream[k].index
           /\ metastate = "converted"

\* ---------------------------------------------------------------------
\* The order of rf_list (specification SpecCachedRF)
\* ---------------------------------------------------------------------

\* the first k requests came in non-decreasing order of index and returned
RequestsOrdered(k) ==
    /\ \A j \in 1..k : rf_requests[j].ret \in {"rf", "None"}
    /\ \A j \in 2..k :
           ~IdxLess(rf_requests[j].index, rf_requests[j - 1].index)

\* rf_list before the k-th request
ListBefore(k) == IF k = 1 THEN <<>> ELSE rf_requests[k - 1].list

\* new is a tail of old, with m RestoreFiles of the directory of index put
\* before it
HeadChanged(old, new, index, m) ==
    /\ \E n \in 0..Len(old) :
           SubSeq(new, m + 1, Len(new)) = SubSeq(old, n + 1, Len(old))
    /\ \A j \in 1..m :
           /\ Parent(new[j]) = Parent(index) /\ new[j] \in rf_repo
           /\ \A i \in (m + 1)..Len(new) : IdxLess(new[j], new[i])

\* C33: with requests in non-decreasing order rf_list is strictly
\* ascending after every _get_rf; RestoreFiles are put at the head, all of
\* them before the entries that stay, and entries leave from the head
C33_RfListAscending ==
    \A k \in 1..Len(rf_requests) :
        RequestsOrdered(k) =>
            /\ Ascending(rf_requests[k].list)
            /\ \E m \in 0..Len(rf_requests[k].list) :
                   HeadChanged(ListBefore(k), rf_requests[k].list,
                               rf_requests[k].index, m)

\* ordered requests: the third one put the RestoreFiles of its directory
\* before a head that stayed
C33_Witness ==
    /\ Len(rf_requests) = 3
    /\ RequestsOrdered(3)
    /\ rf_requests[3].ret = "rf"
    /\ Len(rf_requests[3].list) >= 3
    /\ Parent(rf_requests[3].list[1]) # Parent(rf_requests[3].list[3])
    /\ rf_requests[2].list # <<>>
    /\ rf_requests[3].list[3] = rf_requests[2].list[Len(rf_requests[2].list)]

\* C37: _get_rf returns the RestoreFile of the index or None after
\* finitely many iterations, for every index and every rf_list
C37_GetRfTerminates ==
    \A k \in 1..Len(rf_requests) : rf_requests[k].ret \in {"rf", "None"}

\* ---------------------------------------------------------------------
\* Increments and success flags of the fast path (specification Spec)
\* ---------------------------------------------------------------------

\* C34: after fast_process_file of patch_and_increment, the index has an
\* increment of this session, attached to its row, if and only if the
\* success flag of the row is 1 or 2
C34_IncrementIffSuccess ==
    (ops.did # <<>> /\ ops.index \in DOMAIN cache_dict) =>
        LET row == cache_dict[ops.index]
        IN  /\ (incs[ops.index] # "none") <=> (row.success \in {1, 2})
            /\ (row.inc # "none") <=> (row.success \in {1, 2})

\* ---------------------------------------------------------------------
\* The changed flag and the signatures of get_sigs (specification Spec)
\* ---------------------------------------------------------------------

\* get_sigs has taken a pair: the changed flag of its row is 1 exactly when
\* a signature was yielded for it; no other step sets a changed flag
ChangedWithSignature ==
    /\ stream' # stream =>
           LET index == stream'[Len(stream')].index
           IN  /\ index \in DOMAIN cache_dict'
               /\ (diffq' = Append(diffq, index))
                      <=> (cache_dict'[index].changed = 1)
               /\ diffq' # diffq => diffq' = Append(diffq, index)
    /\ \A i \in (DOMAIN cache_dict) \cap (DOMAIN cache_dict') :
           cache_dict'[i].changed = cache_dict[i].changed
    /\ \A k \in (Len(evlog) + 1)..Len(evlog') :
           /\ evlog'[k].index \in DOMAIN cache_dict
              => evlog'[k].changed = cache_dict[evlog'[k].index].changed
           /\ evlog'[k].index \notin DOMAIN cache_dict
              => (evlog'[k].changed = 1 <=> diffq' # diffq)

\* the rows evicted without a signature kept success flag 0 and had their
\* dest record committed
UnchangedKeepDest ==
    \A k \in 1..Len(evlog) :
        evlog[k].changed = 0 =>
            evlog[k].success = 0 /\ evlog[k].wrote = evlog[k].dest

\* the same, but for the directories a filler of FillInIter went through
UnchangedKeepDestOrFilled ==
    \A k \in 1..Len(evlog) :
        evlog[k].changed = 0 =>
            \/ evlog[k].success = 0 /\ evlog[k].wrote = evlog[k].dest
            \/ /\ IsDir(evlog[k].src) /\ evlog[k].src = evlog[k].dest
               /\ evlog[k].success = 1 /\ evlog[k].wrote = evlog[k].src

C36_RowStillAvailable ==
    /\ failure # "KeyError"
    /\ \A k \in 1..Len(diffq) :
           PulledAfter(diffq[k]) < cache_size => diffq[k] \in DOMAIN cache_dict
    /\ (ops.did # <<>> /\ PulledAfter(ops.index) < cache_size /\ ~Closed)
           => ops.index \in DOMAIN cache_dict

\* a diff was patched with cache_size - 1 pairs pulled after it, its row in
\* the main cache and the row of its parent in the parent cache only
C36_Witness ==
    /\ failure = "none" /\ ops.did # <<>> /\ ops.index # <<>>
    /\ PulledAfter(ops.index) = cache_size - 1 /\ cache_size > 1
    /\ ops.index \in DOMAIN cache_dict
    /\ cache_dict[ops.index].success = 1
    /\ Parent(ops.index) \notin DOMAIN cache_dict
    /\ \E k \in 1..Len(parent_list) : parent_list[k].index = Parent(ops.index)

\* ---------------------------------------------------------------------
\* The parent cache is a chain (specification SpecCache)
\* ---------------------------------------------------------------------

\* the three assertions of _update_parent_list
ParentListAssertions ==
    {"assert parent_list or index == ()", "assert li <= lp_index + 1",
     "assert common path"}

\* C38: over an index-ordered stream that starts at the root and whose
\* non-root indices have a directory for parent, no assertion of
\* _update_parent_list fails and parent_list is a chain: counting from 0 as
\* the code does, parent_list[k] has an index of length k, which is a prefix
\* of the index of parent_list[k + 1]
C38_ParentListIsChain ==
    /\ failure \notin ParentListAssertions
    /\ \A k \in 0..(Len(parent_list) - 1) :
           /\ Len(parent_list[k + 1].index) = k
           /\ k + 2 <= Len(parent_list)
              => IsPrefix(parent_list[k + 1].index, parent_list[k + 2].index)

\* the parent cache is MaxDepth + 1 directories deep after it was cut back
\* and grew again along another branch
C38_Witness ==
    /\ failure = "none"
    /\ Len(parent_list) = MaxDepth + 1
    /\ \E k \in 1..Len(evlog) :
           /\ IsDir(evlog[k].src) \/ IsDir(evlog[k].dest)
           /\ Len(evlog[k].index) = MaxDepth
           /\ ~IsPrefix(evlog[k].index,
                        parent_list[Len(parent_list)].index)

\* ---------------------------------------------------------------------
\* The diffs of relevant_incs (specification SpecRF)
\* ---------------------------------------------------------------------

\* C39: after set_relevant_incs, for every increment list and restore
\* time, every element of relevant_incs after the first is a diff (the
\* assertion in the loop of get_restore_fp holds), the diffs are in strictly
\* descending order of time down to the restore time, and the first
\* element, if it is an increment, is newer than all of them
C39_DiffsNewestFirst ==
    rf.made =>
        LET incs_rel == rf.relevant_incs
        IN  /\ incs_rel # <<>>
            /\ \A k \in 2..Len(incs_rel) :
                   /\ incs_rel[k].kind = "diff"
                   /\ incs_rel[k].time >= rf.restore_time
                   /\ k > 2 => incs_rel[k - 1].time > incs_rel[k].time
                   /\ incs_rel[1] # MirrorInc
                      => incs_rel[1].time > incs_rel[k].time

\* two diffs, listed the newest first, are applied to the mirror file and
\* the content is read
C39_Witness ==
    /\ rf.made /\ rf.read
    /\ Len(rf.relevant_incs) = 3
    /\ rf.relevant_incs[1] = MirrorInc
    /\ Len(inc_list) >= 2
    /\ inc_list[1].time > inc_list[2].time
    /\ inc_list[1] = rf.relevant_incs[2]
    /\ inc_list[2] = rf.relevant_incs[3]

\* ---------------------------------------------------------------------
\* main_run for the info action (specification SpecInfo)
\* ---------------------------------------------------------------------

\* InfoAction.setup: its body is pass, so the call gives None and no
\* return code
info_setup == "None"

\* ret_val |= conn_act.setup() for the info action: | of an integer and
\* None raises TypeError, which nothing in main_run catches
InfoSetup ==
    /\ run_at = "setup"
    /\ info_setup = "None"
    /\ run_at' = "TypeError"
    /\ UNCHANGED <<ret_val, stages, returned>>
    /\ UNCHANGED runOthers

\* the stages of main_run that the info action gets to
InfoNext == SetVerbosity \/ PreCheck \/ Connect \/ Check \/ InfoSetup

SpecInfo == RunInit /\ [][InfoNext]_vars

\* C40 as stated: for the info action every stage result is an integer
\* return code, the setup stage contributes no error bit, and main_run goes
\* on from the setup stage to the run stage and returns an integer
C40_InfoSetupGivesOk ==
    /\ \A k \in DOMAIN stages : stages[k].code \in 0..15
    /\ ret_val \in 0..15
    /\ run_at \in {"verbosity", "pre_check", "connect", "check", "setup",
                   "run", "returned"}
    /\ run_at = "returned" => returned \in 0..15

====
